---- MODULE Spec2Model ----
(***************************************************************************)
(* Monitor supervision and resilient-connection core of social_networks:   *)
(* the DM supervisor (src/src/dms/mod.rs), the Discord and Telegram DM     *)
(* monitors (src/src/dms/discord.rs, src/src/dms/telegram.rs), the backoff *)
(* schedule reconnect_delay, the stack guard and the channel-watch daemon  *)
(* (src/src/telegram_channel_watch.rs).                                    *)
(*                                                                         *)
(* Durations are fixed-point numbers of milliseconds.  A u32 is held as    *)
(* two 16-bit halves [hi, lo], since TLC's integers are 32-bit signed.     *)
(***************************************************************************)
EXTENDS Integers, Sequences, FiniteSets, Bags, TLC

VARIABLES
    futures,    \* FuturesUnordered<BoxFut>: the bag of in-flight units of work
    pc,         \* position of run(): "wait" | "match" | "returned" | "unwound"
    cur,        \* the (instance, result) that futures.next() yielded, or None
    lastCall,   \* per monitor: what its last completed collect() did
    streak,     \* per monitor: consecutive failing collect() calls
    delays,     \* per monitor: the backoff delays logged since its last success
    arg,        \* <<x>>: the argument of the pure function being applied
    ret,        \* <<y>>: its result, << >> before the application
    watch,      \* the channel-watch daemon: its loop, counter and session
    conn,       \* one monitor's connection: its event stream and timer
    sched,      \* the poll scheduler: its loop position and cycle counters
    mail,       \* the email monitor: the mailbox, the processed ids, the log
    db          \* the database: recorded migration versions, applied steps

vars == <<futures, pc, cur, lastCall, streak, delays, arg, ret, watch, conn,
          sched, mail, db>>
supVars == <<futures, pc, cur, lastCall, streak, delays>>
fnVars == <<arg, ret>>
jobVars == <<sched, mail, db>>
restVars == <<watch, conn, jobVars>>

None == "None"

(***************************************************************************)
(* Bounds of the model.                                                    *)
(***************************************************************************)
\* failures of one monitor in a row that the model follows
MaxAttempt == 3
\* low halves 0..MaxLo of the u32 inputs of reconnect_delay
MaxLo == 12
\* stack samples within MaxSpread bytes of the threshold
MaxSpread == 60
\* messages counted by message_counter between two heartbeat ACKs
MaxMessages == 1
\* connect attempts made against one session file
MaxOpens == 4
\* lines of a poll text
MaxLines == 5
\* events that arrive on one connection's stream
MaxArrivals == 2
\* collect() calls followed on one connection
MaxCalls == 4
\* failed runs of the channel-watch daemon in a row
MaxReconnects == 9

(***************************************************************************)
(* reconnect_delay: e^attempt seconds, capped at 600.                      *)
(***************************************************************************)
\* fixed-point unit: 1 second = Millis units
Millis == 1000
\* std::f64::consts::E in fixed point
E_MILLIS == 2718
\* the cap of .min(600.0), in seconds
CAP_SECS == 600
\* +inf of f64, and every product beyond the fixed-point range
Inf == -1
Huge == 2000000 * Millis

\* a small natural number as a u32
U32(n) == [hi |-> n \div 65536, lo |-> n % 65536]

\* `attempt as i32`: the same 32 bits read as two's complement
AsI32(u) == IF u.hi >= 32768 THEN (u.hi - 65536) * 65536 + u.lo
            ELSE u.hi * 65536 + u.lo

\* f64 multiplication in fixed point, saturating to Inf
FMul(x, y) == IF x = Inf \/ y = Inf THEN Inf
              ELSE IF x # 0 /\ y > Huge \div x THEN Inf
              ELSE (x * y) \div Millis

\* 1.0 / r
FRecip(r) == IF r = Inf THEN 0 ELSE (Millis * Millis) \div r

\* b / 2 of a C int: truncation toward zero
TruncDiv2(b) == IF b >= 0 THEN b \div 2 ELSE (b + 1) \div 2

\* the square-and-multiply loop of powi: r *= a for every set bit of b
RECURSIVE PowiLoop(_, _, _)
PowiLoop(a, b, r) ==
    LET r1 == IF b % 2 = 1 THEN FMul(r, a) ELSE r
        b1 == TruncDiv2(b)
    IN  IF b1 = 0 THEN r1 ELSE PowiLoop(FMul(a, a), b1, r1)

\* f64::powi(a, b): a^b, the reciprocal for b < 0
Powi(a, b) == LET r == PowiLoop(a, b, Millis)
              IN  IF b < 0 THEN FRecip(r) ELSE r

\* f64::min(x, cap)
FMin(x, cap) == IF x = Inf \/ x > cap THEN cap ELSE x

\* fn reconnect_delay(attempt: u32) -> Duration
reconnect_delay(attempt) ==
    FMin(Powi(E_MILLIS, AsI32(attempt)), CAP_SECS * Millis)

(***************************************************************************)
(* The stack guard.                                                        *)
(***************************************************************************)
\* 6 * 1024 * 1024
STACK_LIMIT == 6 * 1024 * 1024

\* faulty variant of should_reconnect_for_stack: the threshold itself preempts
should_reconnect_at_limit(stack_used) == stack_used >= STACK_LIMIT

\* if stack_used > 6 * 1024 * 1024 { ...; return true } false
should_reconnect_for_stack(stack_used) == stack_used > STACK_LIMIT

(***************************************************************************)
(* The monitors.  A monitor object is a record; collect() is a function of *)
(* the object and of what the outside world does during the call.          *)
(***************************************************************************)
Monitors == {"Discord", "Telegram"}
Other(k) == IF k = "Discord" THEN "Telegram" ELSE "Discord"

\* the one chat whose last message time the model follows
Channel == "chat"

\* DiscordMonitor::new: state: State::Disconnected (the session halves
\* read/write live inside State::Connected), message_counter: 0; the fields
\* that only handle_message reads (config, telegram, monitored_users, the
\* cooldown map) are not followed here
DiscordMonitor_new == [state |-> "Disconnected", message_counter |-> 0]

\* TelegramMonitor::new: state: State::Disconnected, client: None,
\* last_message_times: HashMap::new() (held as the set of its keys)
TelegramMonitor_new ==
    [state |-> "Disconnected", client |-> None, last_message_times |-> {}]

\* what the world can do during one DiscordMonitor::collect(); the events
\* that count a message are left out once message_counter is at its bound
DiscordEvents(m) ==
    IF m.state = "Disconnected"
    THEN {"connect_ok", "connect_err", "panic"}
    ELSE {"heartbeat_sent", "heartbeat_send_failed", "heartbeat_encode_err",
          "message_ack", "message_ignored",
          "websocket_err", "websocket_closed", "panic"}
         \cup (IF m.message_counter < MaxMessages
               THEN {"message_handled", "message_handler_err",
                     "message_other_op"}
               ELSE {})

\* what the world can do during one TelegramMonitor::collect()
TelegramEvents(m) ==
    IF m.state = "Disconnected"
    THEN {"connect_ok", "connect_err", "panic"}
    ELSE {"next_err", "update_ignored", "ping_sent", "ping_err",
          "monitored_sent", "monitored_err", "monitored_quiet", "panic"}

\* the stack samples a Connected Telegram collect() can read
StackSamples == {0, STACK_LIMIT, STACK_LIMIT + 1}

\* the value of one collect() call: the monitor afterwards, how the call
\* ended ("ok" = Ok(()), "err" = Err(e), "panic", "sleep" = Ok(()) after the
\* call's own retry sleep of `wait` ms), whether it touched the network, was
\* vetoed by the stack guard, or had the business layer report an error, and
\* the operations it awaited, in order
Ret(m, outcome, io, veto, biz, wait, ops) ==
    [m |-> m, outcome |-> outcome, io |-> io, veto |-> veto, biz |-> biz,
     wait |-> wait, ops |-> ops]

\* faulty variant of DiscordMonitor_collect: handle_message(d).await? propagates
DiscordMonitor_collect_propagating(m, ev) ==
    IF m.state = "Disconnected"
    THEN IF ev = "panic"
         THEN Ret(m, "panic", TRUE, FALSE, FALSE, 0, <<"connect">>)
         ELSE IF ev = "connect_ok"
         THEN Ret([m EXCEPT !.state = "Connected"], "ok", TRUE, FALSE, FALSE, 0, <<"connect">>)
         ELSE Ret(m, "sleep", TRUE, FALSE, FALSE, 5 * 60 * Millis, <<"connect">>)
    ELSE CASE ev = "panic" ->
                Ret(m, "panic", TRUE, FALSE, FALSE, 0, <<"select">>)
           [] ev = "heartbeat_sent" ->
                Ret(m, "ok", TRUE, FALSE, FALSE, 0, <<"select", "send">>)
           [] ev = "heartbeat_send_failed" ->
                Ret([m EXCEPT !.state = "Disconnected"], "ok", TRUE, FALSE, FALSE, 0,
                    <<"select", "send">>)
           [] ev = "heartbeat_encode_err" ->
                Ret(m, "err", TRUE, FALSE, FALSE, 0, <<"select">>)
           [] ev = "message_ack" ->
                Ret([m EXCEPT !.message_counter = 0], "ok", TRUE, FALSE, FALSE, 0,
                    <<"select">>)
           [] ev = "message_handled" ->
                Ret([m EXCEPT !.message_counter = @ + 1], "ok", TRUE, FALSE, FALSE, 0,
                    <<"select", "handle_message">>)
           [] ev = "message_handler_err" ->
                Ret([m EXCEPT !.message_counter = @ + 1], "err", TRUE, FALSE, TRUE, 0,
                    <<"select", "handle_message">>)
           [] ev = "message_other_op" ->
                Ret([m EXCEPT !.message_counter = @ + 1], "ok", TRUE, FALSE, FALSE, 0,
                    <<"select">>)
           [] ev = "message_ignored" ->
                Ret(m, "ok", TRUE, FALSE, FALSE, 0, <<"select">>)
           [] ev \in {"websocket_err", "websocket_closed"} ->
                Ret([m EXCEPT !.state = "Disconnected"], "ok", TRUE, FALSE, FALSE, 0,
                    <<"select">>)

\* faulty variant of DiscordMonitor_collect: a failed connect is returned as Err
DiscordMonitor_collect_connect_err(m, ev) ==
    IF m.state = "Disconnected"
    THEN IF ev = "panic"
         THEN Ret(m, "panic", TRUE, FALSE, FALSE, 0, <<"connect">>)
         ELSE IF ev = "connect_ok"
         THEN Ret([m EXCEPT !.state = "Connected"], "ok", TRUE, FALSE, FALSE, 0, <<"connect">>)
         ELSE Ret(m, "err", TRUE, FALSE, FALSE, 0, <<"connect">>)
    ELSE CASE ev = "panic" ->
                Ret(m, "panic", TRUE, FALSE, FALSE, 0, <<"select">>)
           [] ev = "heartbeat_sent" ->
                Ret(m, "ok", TRUE, FALSE, FALSE, 0, <<"select", "send">>)
           [] ev = "heartbeat_send_failed" ->
                Ret([m EXCEPT !.state = "Disconnected"], "ok", TRUE, FALSE, FALSE, 0,
                    <<"select", "send">>)
           [] ev = "heartbeat_encode_err" ->
                Ret(m, "err", TRUE, FALSE, FALSE, 0, <<"select">>)
           [] ev = "message_ack" ->
                Ret([m EXCEPT !.message_counter = 0], "ok", TRUE, FALSE, FALSE, 0,
                    <<"select">>)
           [] ev = "message_handled" ->
                Ret([m EXCEPT !.message_counter = @ + 1], "ok", TRUE, FALSE, FALSE, 0,
                    <<"select", "handle_message">>)
           [] ev = "message_handler_err" ->
                Ret([m EXCEPT !.message_counter = @ + 1], "ok", TRUE, FALSE, TRUE, 0,
                    <<"select", "handle_message">>)
           [] ev = "message_other_op" ->
                Ret([m EXCEPT !.message_counter = @ + 1], "ok", TRUE, FALSE, FALSE, 0,
                    <<"select">>)
           [] ev = "message_ignored" ->
                Ret(m, "ok", TRUE, FALSE, FALSE, 0, <<"select">>)
           [] ev \in {"websocket_err", "websocket_closed"} ->
                Ret([m EXCEPT !.state = "Disconnected"], "ok", TRUE, FALSE, FALSE, 0,
                    <<"select">>)

\* faulty variant of DiscordMonitor_collect: after a connect the same call
\* goes on to wait for an event
DiscordMonitor_collect_falls_through(m, ev) ==
    IF m.state = "Disconnected"
    THEN IF ev = "panic"
         THEN Ret(m, "panic", TRUE, FALSE, FALSE, 0, <<"connect">>)
         ELSE IF ev = "connect_ok"
         THEN Ret([m EXCEPT !.state = "Connected"], "ok", TRUE, FALSE, FALSE, 0, <<"connect", "select">>)
         ELSE Ret(m, "sleep", TRUE, FALSE, FALSE, 5 * 60 * Millis, <<"connect">>)
    ELSE CASE ev = "panic" ->
                Ret(m, "panic", TRUE, FALSE, FALSE, 0, <<"select">>)
           [] ev = "heartbeat_sent" ->
                Ret(m, "ok", TRUE, FALSE, FALSE, 0, <<"select", "send">>)
           [] ev = "heartbeat_send_failed" ->
                Ret([m EXCEPT !.state = "Disconnected"], "ok", TRUE, FALSE, FALSE, 0,
                    <<"select", "send">>)
           [] ev = "heartbeat_encode_err" ->
                Ret(m, "err", TRUE, FALSE, FALSE, 0, <<"select">>)
           [] ev = "message_ack" ->
                Ret([m EXCEPT !.message_counter = 0], "ok", TRUE, FALSE, FALSE, 0,
                    <<"select">>)
           [] ev = "message_handled" ->
                Ret([m EXCEPT !.message_counter = @ + 1], "ok", TRUE, FALSE, FALSE, 0,
                    <<"select", "handle_message">>)
           [] ev = "message_handler_err" ->
                Ret([m EXCEPT !.message_counter = @ + 1], "ok", TRUE, FALSE, TRUE, 0,
                    <<"select", "handle_message">>)
           [] ev = "message_other_op" ->
                Ret([m EXCEPT !.message_counter = @ + 1], "ok", TRUE, FALSE, FALSE, 0,
                    <<"select">>)
           [] ev = "message_ignored" ->
                Ret(m, "ok", TRUE, FALSE, FALSE, 0, <<"select">>)
           [] ev \in {"websocket_err", "websocket_closed"} ->
                Ret([m EXCEPT !.state = "Disconnected"], "ok", TRUE, FALSE, FALSE, 0,
                    <<"select">>)

\* faulty variant of DiscordMonitor_collect: a failed heartbeat send is
\* returned as Err
DiscordMonitor_collect_send_err(m, ev) ==
    IF m.state = "Disconnected"
    THEN \* match self.connect().await
         IF ev = "panic"
         THEN Ret(m, "panic", TRUE, FALSE, FALSE, 0, <<"connect">>)
         ELSE IF ev = "connect_ok"
         THEN Ret([m EXCEPT !.state = "Connected"], "ok", TRUE, FALSE, FALSE, 0, <<"connect">>)
         ELSE \* time::sleep(Duration::from_secs(5 * 60)).await; Ok(())
              Ret(m, "sleep", TRUE, FALSE, FALSE, 5 * 60 * Millis, <<"connect">>)
    ELSE \* select(heartbeat_fut, msg_fut).await
         CASE ev = "panic" ->
                Ret(m, "panic", TRUE, FALSE, FALSE, 0, <<"select">>)
           [] ev = "heartbeat_sent" ->
                Ret(m, "ok", TRUE, FALSE, FALSE, 0, <<"select", "send">>)
           [] ev = "heartbeat_send_failed" ->
                Ret([m EXCEPT !.state = "Disconnected"], "err", TRUE, FALSE, FALSE, 0,
                    <<"select", "send">>)
           [] ev = "heartbeat_encode_err" ->
                Ret(m, "err", TRUE, FALSE, FALSE, 0, <<"select">>)
           [] ev = "message_ack" ->
                Ret([m EXCEPT !.message_counter = 0], "ok", TRUE, FALSE, FALSE, 0,
                    <<"select">>)
           [] ev = "message_handled" ->
                Ret([m EXCEPT !.message_counter = @ + 1], "ok", TRUE, FALSE, FALSE, 0,
                    <<"select", "handle_message">>)
           [] ev = "message_handler_err" ->
                Ret([m EXCEPT !.message_counter = @ + 1], "ok", TRUE, FALSE, TRUE, 0,
                    <<"select", "handle_message">>)
           [] ev = "message_other_op" ->
                Ret([m EXCEPT !.message_counter = @ + 1], "ok", TRUE, FALSE, FALSE, 0,
                    <<"select">>)
           [] ev = "message_ignored" ->
                Ret(m, "ok", TRUE, FALSE, FALSE, 0, <<"select">>)
           [] ev \in {"websocket_err", "websocket_closed"} ->
                Ret([m EXCEPT !.state = "Disconnected"], "ok", TRUE, FALSE, FALSE, 0,
                    <<"select">>)

\* DiscordMonitor::collect
DiscordMonitor_collect(m, ev) ==
    IF m.state = "Disconnected"
    THEN \* match self.connect().await
         IF ev = "panic"
         THEN Ret(m, "panic", TRUE, FALSE, FALSE, 0, <<"connect">>)
         ELSE IF ev = "connect_ok"
         THEN Ret([m EXCEPT !.state = "Connected"], "ok", TRUE, FALSE, FALSE, 0, <<"connect">>)
         ELSE \* time::sleep(Duration::from_secs(5 * 60)).await; Ok(())
              Ret(m, "sleep", TRUE, FALSE, FALSE, 5 * 60 * Millis, <<"connect">>)
    ELSE \* select(heartbeat_fut, msg_fut).await
         CASE ev = "panic" ->
                Ret(m, "panic", TRUE, FALSE, FALSE, 0, <<"select">>)
           [] ev = "heartbeat_sent" ->
                Ret(m, "ok", TRUE, FALSE, FALSE, 0, <<"select", "send">>)
           [] ev = "heartbeat_send_failed" ->
                Ret([m EXCEPT !.state = "Disconnected"], "ok", TRUE, FALSE, FALSE, 0,
                    <<"select", "send">>)
           [] ev = "heartbeat_encode_err" ->
                \* serde_json::to_string(&heartbeat)?
                Ret(m, "err", TRUE, FALSE, FALSE, 0, <<"select">>)
           [] ev = "message_ack" ->
                \* op 11: self.message_counter += 1; ..; self.message_counter = 0
                Ret([m EXCEPT !.message_counter = 0], "ok", TRUE, FALSE, FALSE, 0,
                    <<"select">>)
           [] ev = "message_handled" ->
                \* op 0: self.message_counter += 1; handle_message(d) is Ok
                Ret([m EXCEPT !.message_counter = @ + 1], "ok", TRUE, FALSE, FALSE, 0,
                    <<"select", "handle_message">>)
           [] ev = "message_handler_err" ->
                \* if let Err(e) = self.handle_message(d).await { error!(..) }
                Ret([m EXCEPT !.message_counter = @ + 1], "ok", TRUE, FALSE, TRUE, 0,
                    <<"select", "handle_message">>)
           [] ev = "message_other_op" ->
                Ret([m EXCEPT !.message_counter = @ + 1], "ok", TRUE, FALSE, FALSE, 0,
                    <<"select">>)
           [] ev = "message_ignored" ->
                \* not a DiscordMessage, or not Message::Text
                Ret(m, "ok", TRUE, FALSE, FALSE, 0, <<"select">>)
           [] ev \in {"websocket_err", "websocket_closed"} ->
                Ret([m EXCEPT !.state = "Disconnected"], "ok", TRUE, FALSE, FALSE, 0,
                    <<"select">>)

\* faulty variant of TelegramMonitor_collect: the veto is reported as an error
TelegramMonitor_collect_veto_err(m, ev, stack_used) ==
    IF m.state = "Disconnected"
    THEN IF ev = "panic"
         THEN Ret(m, "panic", TRUE, FALSE, FALSE, 0, <<"connect">>)
         ELSE IF ev = "connect_ok"
         THEN Ret([m EXCEPT !.state = "Connected", !.client = "Some"],
                  "ok", TRUE, FALSE, FALSE, 0, <<"connect">>)
         ELSE Ret(m, "sleep", TRUE, FALSE, FALSE, 10 * 60 * Millis, <<"connect">>)
    ELSE IF stack_used > 6 * 1024 * 1024
    THEN Ret([m EXCEPT !.state = "Disconnected", !.client = None],
             "err", FALSE, TRUE, FALSE, 0, << >>)
    ELSE CASE ev = "panic" ->
                Ret(m, "panic", TRUE, FALSE, FALSE, 0, <<"updates.next">>)
           [] ev = "next_err" ->
                Ret([m EXCEPT !.state = "Disconnected", !.client = None],
                    "ok", TRUE, FALSE, FALSE, 0, <<"updates.next">>)
           [] ev = "update_ignored" ->
                Ret(m, "ok", TRUE, FALSE, FALSE, 0, <<"updates.next">>)
           [] ev = "ping_sent" ->
                Ret(m, "ok", TRUE, FALSE, FALSE, 0, <<"updates.next", "notify">>)
           [] ev = "ping_err" ->
                Ret(m, "ok", TRUE, FALSE, TRUE, 0, <<"updates.next", "notify">>)
           [] ev = "monitored_sent" ->
                Ret([m EXCEPT !.last_message_times = @ \cup {Channel}],
                    "ok", TRUE, FALSE, FALSE, 0, <<"updates.next", "notify">>)
           [] ev = "monitored_err" ->
                Ret([m EXCEPT !.last_message_times = @ \cup {Channel}],
                    "ok", TRUE, FALSE, TRUE, 0, <<"updates.next", "notify">>)
           [] ev = "monitored_quiet" ->
                Ret([m EXCEPT !.last_message_times = @ \cup {Channel}],
                    "ok", TRUE, FALSE, FALSE, 0, <<"updates.next">>)

\* faulty variant of TelegramMonitor_collect: an update-stream error leaves
\* the client in place
TelegramMonitor_collect_keeps_client(m, ev, stack_used) ==
    IF m.state = "Disconnected"
    THEN IF ev = "panic"
         THEN Ret(m, "panic", TRUE, FALSE, FALSE, 0, <<"connect">>)
         ELSE IF ev = "connect_ok"
         THEN Ret([m EXCEPT !.state = "Connected", !.client = "Some"],
                  "ok", TRUE, FALSE, FALSE, 0, <<"connect">>)
         ELSE Ret(m, "sleep", TRUE, FALSE, FALSE, 10 * 60 * Millis, <<"connect">>)
    ELSE IF stack_used > 6 * 1024 * 1024
    THEN Ret([m EXCEPT !.state = "Disconnected", !.client = None],
             "ok", FALSE, TRUE, FALSE, 0, << >>)
    ELSE CASE ev = "panic" ->
                Ret(m, "panic", TRUE, FALSE, FALSE, 0, <<"updates.next">>)
           [] ev = "next_err" ->
                Ret([m EXCEPT !.state = "Disconnected"],
                    "ok", TRUE, FALSE, FALSE, 0, <<"updates.next">>)
           [] ev = "update_ignored" ->
                Ret(m, "ok", TRUE, FALSE, FALSE, 0, <<"updates.next">>)
           [] ev = "ping_sent" ->
                Ret(m, "ok", TRUE, FALSE, FALSE, 0, <<"updates.next", "notify">>)
           [] ev = "ping_err" ->
                Ret(m, "ok", TRUE, FALSE, TRUE, 0, <<"updates.next", "notify">>)
           [] ev = "monitored_sent" ->
                Ret([m EXCEPT !.last_message_times = @ \cup {Channel}],
                    "ok", TRUE, FALSE, FALSE, 0, <<"updates.next", "notify">>)
           [] ev = "monitored_err" ->
                Ret([m EXCEPT !.last_message_times = @ \cup {Channel}],
                    "ok", TRUE, FALSE, TRUE, 0, <<"updates.next", "notify">>)
           [] ev = "monitored_quiet" ->
                Ret([m EXCEPT !.last_message_times = @ \cup {Channel}],
                    "ok", TRUE, FALSE, FALSE, 0, <<"updates.next">>)

\* faulty variant of TelegramMonitor_collect: an error of updates.next() is
\* returned as Err
TelegramMonitor_collect_next_err_is_err(m, ev, stack_used) ==
    IF m.state = "Disconnected"
    THEN \* match self.connect().await
         IF ev = "panic"
         THEN Ret(m, "panic", TRUE, FALSE, FALSE, 0, <<"connect">>)
         ELSE IF ev = "connect_ok"
         THEN Ret([m EXCEPT !.state = "Connected", !.client = "Some"],
                  "ok", TRUE, FALSE, FALSE, 0, <<"connect">>)
         ELSE \* time::sleep(Duration::from_secs(10 * 60)).await; Ok(())
              Ret(m, "sleep", TRUE, FALSE, FALSE, 10 * 60 * Millis, <<"connect">>)
    ELSE \* let (stack_used, _) = crate::utils::stack_usage();
         IF stack_used > 6 * 1024 * 1024
    THEN Ret([m EXCEPT !.state = "Disconnected", !.client = None],
             "ok", FALSE, TRUE, FALSE, 0, << >>)
    ELSE \* updates.next().await
         CASE ev = "panic" ->
                Ret(m, "panic", TRUE, FALSE, FALSE, 0, <<"updates.next">>)
           [] ev = "next_err" ->
                Ret([m EXCEPT !.state = "Disconnected", !.client = None],
                    "err", TRUE, FALSE, FALSE, 0, <<"updates.next">>)
           [] ev = "update_ignored" ->
                Ret(m, "ok", TRUE, FALSE, FALSE, 0, <<"updates.next">>)
           [] ev = "ping_sent" ->
                Ret(m, "ok", TRUE, FALSE, FALSE, 0, <<"updates.next", "notify">>)
           [] ev = "ping_err" ->
                Ret(m, "ok", TRUE, FALSE, TRUE, 0, <<"updates.next", "notify">>)
           [] ev = "monitored_sent" ->
                Ret([m EXCEPT !.last_message_times = @ \cup {Channel}],
                    "ok", TRUE, FALSE, FALSE, 0, <<"updates.next", "notify">>)
           [] ev = "monitored_err" ->
                Ret([m EXCEPT !.last_message_times = @ \cup {Channel}],
                    "ok", TRUE, FALSE, TRUE, 0, <<"updates.next", "notify">>)
           [] ev = "monitored_quiet" ->
                Ret([m EXCEPT !.last_message_times = @ \cup {Channel}],
                    "ok", TRUE, FALSE, FALSE, 0, <<"updates.next">>)

\* faulty variant of TelegramMonitor_collect: the stack is sampled after
\* updates.next() has returned
TelegramMonitor_collect_guard_after_next(m, ev, stack_used) ==
    IF m.state = "Disconnected"
    THEN \* match self.connect().await
         IF ev = "panic"
         THEN Ret(m, "panic", TRUE, FALSE, FALSE, 0, <<"connect">>)
         ELSE IF ev = "connect_ok"
         THEN Ret([m EXCEPT !.state = "Connected", !.client = "Some"],
                  "ok", TRUE, FALSE, FALSE, 0, <<"connect">>)
         ELSE \* time::sleep(Duration::from_secs(10 * 60)).await; Ok(())
              Ret(m, "sleep", TRUE, FALSE, FALSE, 10 * 60 * Millis, <<"connect">>)
    ELSE \* let (stack_used, _) = crate::utils::stack_usage();
         IF stack_used > 6 * 1024 * 1024
    THEN Ret([m EXCEPT !.state = "Disconnected", !.client = None],
             "ok", TRUE, TRUE, FALSE, 0, <<"updates.next">>)
    ELSE \* updates.next().await
         CASE ev = "panic" ->
                Ret(m, "panic", TRUE, FALSE, FALSE, 0, <<"updates.next">>)
           [] ev = "next_err" ->
                Ret([m EXCEPT !.state = "Disconnected", !.client = None],
                    "ok", TRUE, FALSE, FALSE, 0, <<"updates.next">>)
           [] ev = "update_ignored" ->
                Ret(m, "ok", TRUE, FALSE, FALSE, 0, <<"updates.next">>)
           [] ev = "ping_sent" ->
                Ret(m, "ok", TRUE, FALSE, FALSE, 0, <<"updates.next", "notify">>)
           [] ev = "ping_err" ->
                Ret(m, "ok", TRUE, FALSE, TRUE, 0, <<"updates.next", "notify">>)
           [] ev = "monitored_sent" ->
                Ret([m EXCEPT !.last_message_times = @ \cup {Channel}],
                    "ok", TRUE, FALSE, FALSE, 0, <<"updates.next", "notify">>)
           [] ev = "monitored_err" ->
                Ret([m EXCEPT !.last_message_times = @ \cup {Channel}],
                    "ok", TRUE, FALSE, TRUE, 0, <<"updates.next", "notify">>)
           [] ev = "monitored_quiet" ->
                Ret([m EXCEPT !.last_message_times = @ \cup {Channel}],
                    "ok", TRUE, FALSE, FALSE, 0, <<"updates.next">>)

\* TelegramMonitor::collect
TelegramMonitor_collect(m, ev, stack_used) ==
    IF m.state = "Disconnected"
    THEN \* match self.connect().await
         IF ev = "panic"
         THEN Ret(m, "panic", TRUE, FALSE, FALSE, 0, <<"connect">>)
         ELSE IF ev = "connect_ok"
         THEN Ret([m EXCEPT !.state = "Connected", !.client = "Some"],
                  "ok", TRUE, FALSE, FALSE, 0, <<"connect">>)
         ELSE \* time::sleep(Duration::from_secs(10 * 60)).await; Ok(())
              Ret(m, "sleep", TRUE, FALSE, FALSE, 10 * 60 * Millis, <<"connect">>)
    ELSE \* let (stack_used, _) = crate::utils::stack_usage();
         IF stack_used > 6 * 1024 * 1024
    THEN Ret([m EXCEPT !.state = "Disconnected", !.client = None],
             "ok", FALSE, TRUE, FALSE, 0, << >>)
    ELSE \* updates.next().await
         CASE ev = "panic" ->
                Ret(m, "panic", TRUE, FALSE, FALSE, 0, <<"updates.next">>)
           [] ev = "next_err" ->
                Ret([m EXCEPT !.state = "Disconnected", !.client = None],
                    "ok", TRUE, FALSE, FALSE, 0, <<"updates.next">>)
           [] ev = "update_ignored" ->
                Ret(m, "ok", TRUE, FALSE, FALSE, 0, <<"updates.next">>)
           [] ev = "ping_sent" ->
                Ret(m, "ok", TRUE, FALSE, FALSE, 0, <<"updates.next", "notify">>)
           [] ev = "ping_err" ->
                \* if let Err(e) = ..send_ping_notification(..).await { error!(..) }
                Ret(m, "ok", TRUE, FALSE, TRUE, 0, <<"updates.next", "notify">>)
           [] ev = "monitored_sent" ->
                Ret([m EXCEPT !.last_message_times = @ \cup {Channel}],
                    "ok", TRUE, FALSE, FALSE, 0, <<"updates.next", "notify">>)
           [] ev = "monitored_err" ->
                \* if let Err(e) = ..send_monitored_user_message(..).await { error!(..) }
                Ret([m EXCEPT !.last_message_times = @ \cup {Channel}],
                    "ok", TRUE, FALSE, TRUE, 0, <<"updates.next", "notify">>)
           [] ev = "monitored_quiet" ->
                \* should_notify is false: only the time is recorded
                Ret([m EXCEPT !.last_message_times = @ \cup {Channel}],
                    "ok", TRUE, FALSE, FALSE, 0, <<"updates.next">>)

\* m.collect() of the monitor of kind k
Events(k, m) == IF k = "Discord" THEN DiscordEvents(m) ELSE TelegramEvents(m)
Samples(k, m) == IF k = "Telegram" /\ m.state = "Connected"
                 THEN StackSamples ELSE {0}
Collect(k, m, ev, stack_used) ==
    IF k = "Discord" THEN DiscordMonitor_collect(m, ev)
    ELSE TelegramMonitor_collect(m, ev, stack_used)

(***************************************************************************)
(* The supervisor: async fn run.                                           *)
(***************************************************************************)
\* one in-flight unit of work: the async block that owns the monitor m, first
\* sleeps `delay` (phase "sleep") when it follows a failure, then runs
\* m.collect() (phase "collect"; "stdin_code" and "stdin_password" while
\* Telegram's connect() sits in std::io::stdin().read_line, "signin" once the
\* operator has answered; "retry_sleep" while collect() itself sleeps after a
\* failed connect) and yields MonitorInstance(m, attempt)
Unit(kind, m, phase, delay, attempt) ==
    [kind |-> kind, m |-> m, phase |-> phase, delay |-> delay,
     attempt |-> attempt]

\* faulty variant of catch_unwind: the panic is not caught and unwinds run()
no_catch_unwind(outcome) ==
    CASE outcome = "ok" -> "Ok(Ok)"
      [] outcome = "err" -> "Ok(Err)"
      [] outcome = "panic" -> "unwind"

\* AssertUnwindSafe(m.collect()).catch_unwind().await
catch_unwind(outcome) ==
    CASE outcome = "ok" -> "Ok(Ok)"
      [] outcome = "err" -> "Ok(Err)"
      [] outcome = "panic" -> "Err(panic)"

\* faulty variants of Push: the replacement is dropped, or pushed twice
PushNothing(pool, f) == pool
PushTwice(pool, f) == pool (+) SetToBag({f}) (+) SetToBag({f})

\* futures.push(Box::pin(async move { .. }))
Push(pool, f) == pool (+) SetToBag({f})

\* faulty variant of SuccessUnit: the attempt count survives a success
SuccessUnitKeepsAttempt(inst) ==
    Unit(inst.kind, inst.m, "collect", 0, inst.attempt)

\* faulty variant of SuccessUnit: the block sleeps the first backoff delay
SuccessUnitSleeps(inst) ==
    Unit(inst.kind, inst.m, "sleep", reconnect_delay(U32(0)), 0)

\* the async block of the success arms: no sleep, (MonitorInstance(m, 0), result)
SuccessUnit(inst) == Unit(inst.kind, inst.m, "collect", 0, 0)

\* faulty variants of FailureUnit: the count is not incremented; the delay is
\* computed from the incremented count
FailureUnitSameAttempt(inst) ==
    Unit(inst.kind, inst.m, "sleep", reconnect_delay(U32(inst.attempt)),
         inst.attempt)
FailureUnitDelayAhead(inst) ==
    Unit(inst.kind, inst.m, "sleep", reconnect_delay(U32(inst.attempt + 1)),
         inst.attempt + 1)

\* faulty variant of FailureUnit: the unit is built around a newly
\* constructed monitor
FailureUnitFreshMonitor(inst) ==
    Unit(inst.kind,
         IF inst.kind = "Discord" THEN DiscordMonitor_new
         ELSE TelegramMonitor_new,
         "sleep", reconnect_delay(U32(inst.attempt)), inst.attempt + 1)

\* faulty variant of FailureUnit: the unit's sleep never ends
FailureUnitNeverWakes(inst) ==
    Unit(inst.kind, inst.m, "parked", reconnect_delay(U32(inst.attempt)),
         inst.attempt + 1)

\* faulty variant of FailureUnit: the arm wraps the monitor as the other kind
FailureUnitOtherKind(inst) ==
    Unit(Other(inst.kind), inst.m, "sleep",
         reconnect_delay(U32(inst.attempt)), inst.attempt + 1)

\* faulty variant of FailureUnit: the async block calls collect() at once
FailureUnitNoSleep(inst) ==
    Unit(inst.kind, inst.m, "collect", 0, inst.attempt + 1)

\* the async block of the error and panic arms:
\* let delay = reconnect_delay(attempt); sleep(delay).await;
\* (MonitorInstance(m, attempt + 1), result)
FailureUnit(inst) ==
    Unit(inst.kind, inst.m, "sleep", reconnect_delay(U32(inst.attempt)),
         inst.attempt + 1)

\* while let Some(..) = futures.next().await: an empty pool yields None and
\* run() returns Ok(())
LoopHead(pool) == IF pool = EmptyBag THEN "returned" ELSE "wait"

InitialPool ==
    Push(Push(EmptyBag, Unit("Discord", DiscordMonitor_new, "collect", 0, 0)),
         Unit("Telegram", TelegramMonitor_new, "collect", 0, 0))

\* how many of the operations in ops belong to the set S
RECURSIVE Count(_, _)
Count(ops, S) ==
    IF ops = << >> THEN 0
    ELSE (IF Head(ops) \in S THEN 1 ELSE 0) + Count(Tail(ops), S)

\* the awaits that are a connect attempt, and those that take one event off
\* the multiplexed stream (select of tick and message, updates.next())
ConnectOps == {"connect"}
EventOps == {"select", "updates.next"}

\* what failed at protocol level once the call has taken ev off the stream:
\* the heartbeat send ("Failed to send heartbeat, reconnecting..."), or the
\* receive (Some(Err(e)) and None of read.next(), Err(e) of updates.next())
Fault(ev) ==
    CASE ev = "heartbeat_send_failed" -> "send"
      [] ev \in {"websocket_err", "websocket_closed", "next_err"} -> "recv"
      [] OTHER -> "none"

NoCall == [pre |-> None, result |-> None, io |-> FALSE, veto |-> FALSE,
           biz |-> FALSE, attempt |-> 0, stack |-> 0, connect_failed |-> FALSE,
           wait |-> 0, connects |-> 0, events |-> 0, fault |-> "none"]

SupInit ==
    /\ futures = InitialPool
    /\ pc = LoopHead(InitialPool)
    /\ cur = None
    /\ lastCall = [k \in Monitors |-> NoCall]
    /\ streak = [k \in Monitors |-> 0]
    /\ delays = [k \in Monitors |-> << >>]

FnIdle == arg = << >> /\ ret = << >>
JobsIdle == sched = None /\ mail = None /\ db = None
RestIdle == watch = None /\ conn = None /\ JobsIdle

Init == SupInit /\ FnIdle /\ RestIdle

\* a unit's last poll: it yields (instance, result) and futures.next()
\* hands it to the loop body; an uncaught panic unwinds run() instead
Complete(f, r, ev, stack_used) ==
    LET res == catch_unwind(r.outcome)
    IN  /\ lastCall' = [lastCall EXCEPT ![f.kind] =
                [pre |-> f.m.state, result |-> r.outcome, io |-> r.io,
                 veto |-> r.veto, biz |-> r.biz, attempt |-> f.attempt,
                 stack |-> stack_used,
                 connect_failed |-> (ev = "connect_err"), wait |-> r.wait,
                 connects |-> Count(r.ops, ConnectOps),
                 events |-> Count(r.ops, EventOps),
                 fault |-> IF Count(r.ops, EventOps) > 0 THEN Fault(ev)
                           ELSE "none"]]
        /\ streak' = [streak EXCEPT ![f.kind] =
                IF r.outcome = "ok" THEN 0 ELSE @ + 1]
        /\ IF res = "unwind"
           THEN /\ pc' = "unwound"
                /\ futures' = EmptyBag
                /\ cur' = None
           ELSE /\ pc' = "match"
                /\ futures' = futures (-) SetToBag({f})
                /\ cur' = [kind |-> f.kind, m |-> r.m, attempt |-> f.attempt,
                           result |-> res]
        /\ UNCHANGED <<delays, fnVars, restVars>>

\* faulty variant of Blocking: the backoff is a blocking sleep as well
BlockingWithSleep(f) == f.phase \in {"stdin_code", "stdin_password", "sleep"}

\* the unit is inside a call that does not yield to the executor:
\* std::io::stdin().read_line(..) in TelegramMonitor::connect
Blocking(f) == f.phase \in {"stdin_code", "stdin_password"}

\* run() is one task: futures.next() polls f on the thread that polls every
\* unit, so f moves only while no other unit holds that thread
Runnable(f) ==
    /\ pc = "wait"
    /\ \A g \in BagToSet(futures) : Blocking(g) => g = f

\* tokio::time::sleep(delay).await elapses and m.collect() is called
BackoffElapsed(f) ==
    /\ Runnable(f)
    /\ f.phase = "sleep"
    /\ futures' = (futures (-) SetToBag({f}))
                    (+) SetToBag({[f EXCEPT !.phase = "collect"]})
    /\ UNCHANGED <<pc, cur, lastCall, streak, delays, fnVars, restVars>>

\* m.collect() runs to its end: Ok(()), Err(e) or a panic
CollectCompletes(f) ==
    /\ Runnable(f)
    /\ f.phase \in {"collect", "signin"}
    /\ \E ev \in Events(f.kind, f.m), stack_used \in Samples(f.kind, f.m) :
         LET r == Collect(f.kind, f.m, ev, stack_used)
         IN  /\ r.outcome # "sleep"
             /\ r.outcome \in {"err", "panic"} => f.attempt < MaxAttempt
             /\ Complete(f, r, ev, stack_used)

\* m.collect(): the connect attempt failed and collect() sleeps 5 or 10 min
ConnectFails(f) ==
    /\ Runnable(f)
    /\ f.phase \in {"collect", "signin"}
    /\ \E ev \in Events(f.kind, f.m), stack_used \in Samples(f.kind, f.m) :
         LET r == Collect(f.kind, f.m, ev, stack_used)
         IN  /\ r.outcome = "sleep"
             /\ futures' = (futures (-) SetToBag({f})) (+) SetToBag(
                    {[f EXCEPT !.phase = "retry_sleep", !.delay = r.wait]})
    /\ UNCHANGED <<pc, cur, lastCall, streak, delays, fnVars, restVars>>

\* the sleep inside collect() elapses and collect() returns Ok(())
RetrySleepElapsed(f) ==
    /\ Runnable(f)
    /\ f.phase = "retry_sleep"
    /\ Complete(f, Ret(f.m, "ok", TRUE, FALSE, FALSE, f.delay, <<"connect">>),
                "connect_err", 0)

\* TelegramMonitor::connect: the session is not authorized, a login code is
\* requested and std::io::stdin().read_line(&mut code) waits for the operator
LoginPrompt(f) ==
    /\ Runnable(f)
    /\ f.kind = "Telegram"
    /\ f.phase = "collect"
    /\ f.m.state = "Disconnected"
    /\ futures' = (futures (-) SetToBag({f}))
                    (+) SetToBag({[f EXCEPT !.phase = "stdin_code"]})
    /\ UNCHANGED <<pc, cur, lastCall, streak, delays, fnVars, restVars>>

\* the operator's line arrives: after the code, sign_in either settles the
\* login or asks for the 2FA password, which is a second read_line
OperatorInput(f) ==
    /\ Runnable(f)
    /\ Blocking(f)
    /\ \E next \in (IF f.phase = "stdin_code"
                     THEN {"signin", "stdin_password"} ELSE {"signin"}) :
         futures' = (futures (-) SetToBag({f}))
                        (+) SetToBag({[f EXCEPT !.phase = next]})
    /\ UNCHANGED <<pc, cur, lastCall, streak, delays, fnVars, restVars>>

\* the loop body pushes the replacement unit and goes back to futures.next()
Resubmit(f) ==
    /\ futures' = Push(futures, f)
    /\ pc' = LoopHead(futures')
    /\ cur' = None
    /\ delays' = [delays EXCEPT ![f.kind] =
            IF f.phase = "sleep" THEN Append(@, f.delay) ELSE << >>]
    /\ UNCHANGED <<lastCall, streak, fnVars, restVars>>

\* (MonitorInstance::Discord(mut m, _), Ok(Ok(()))) and the Telegram arm
Success ==
    /\ pc = "match"
    /\ cur.result = "Ok(Ok)"
    /\ Resubmit(SuccessUnit(cur))

\* (MonitorInstance::Discord(mut m, attempt), Ok(Err(e))) and the Telegram arm
Error ==
    /\ pc = "match"
    /\ cur.result = "Ok(Err)"
    /\ Resubmit(FailureUnit(cur))

\* faulty variant of Panic: after a panic the monitor is resubmitted as after
\* a success
PanicWithoutBackoff ==
    /\ pc = "match"
    /\ cur.result = "Err(panic)"
    /\ Resubmit(SuccessUnit(cur))

\* faulty variant of Panic: the arm resets the monitor to Disconnected
PanicDropsSession ==
    /\ pc = "match"
    /\ cur.result = "Err(panic)"
    /\ Resubmit(FailureUnit([cur EXCEPT !.m.state = "Disconnected"]))

\* (MonitorInstance::Discord(mut m, attempt), Err(panic_info)) and the
\* Telegram arm
Panic ==
    /\ pc = "match"
    /\ cur.result = "Err(panic)"
    /\ Resubmit(FailureUnit(cur))

Poll(f) ==
    \/ BackoffElapsed(f)
    \/ CollectCompletes(f)
    \/ ConnectFails(f)
    \/ RetrySleepElapsed(f)
    \/ LoginPrompt(f)
    \/ OperatorInput(f)

React == Success \/ Error \/ Panic

Next ==
    \/ \E f \in BagToSet(futures) : BackoffElapsed(f)
    \/ \E f \in BagToSet(futures) : CollectCompletes(f)
    \/ \E f \in BagToSet(futures) : ConnectFails(f)
    \/ \E f \in BagToSet(futures) : RetrySleepElapsed(f)
    \/ \E f \in BagToSet(futures) : LoginPrompt(f)
    \/ \E f \in BagToSet(futures) : OperatorInput(f)
    \/ Success
    \/ Error
    \/ Panic

Spec == Init /\ [][Next]_vars

\* the executor keeps polling a unit that can make progress, and the loop
\* body runs to its end; a monitor at the model's bound is not driven on
Drive(k) ==
    \E f \in BagToSet(futures) :
        f.kind = k /\ f.attempt < MaxAttempt /\ Poll(f)

\* a backoff timer of k fires; the woken unit is polled as soon as the
\* polling thread is free
TimerFires(k) ==
    \E f \in BagToSet(futures) : f.kind = k /\ BackoffElapsed(f)

\* the line the operator was asked for is typed in
OperatorAnswers == \E f \in BagToSet(futures) : OperatorInput(f)

FairSpec ==
    /\ Spec
    /\ WF_vars(React)
    /\ WF_vars(OperatorAnswers)
    /\ \A k \in Monitors : WF_vars(Drive(k))

\* fair timers and I/O only: the loop body runs, the operator's line
\* arrives, and a backoff sleep that has elapsed is observed once the
\* polling thread is free (strong: the thread is busy now and then)
FairTimers ==
    /\ Spec
    /\ WF_vars(React)
    /\ WF_vars(OperatorAnswers)
    /\ \A k \in Monitors : SF_vars(TimerFires(k))

(***************************************************************************)
(* The pure functions, applied to inputs drawn from bounded sets.          *)
(***************************************************************************)
Halves == (0 .. MaxLo) \cup ((65535 - MaxLo) .. 65535)
DelayInputs == {[hi |-> h, lo |-> l] : h \in {0, 32767, 32768, 65535},
                                        l \in Halves}

DelayInit ==
    SupInit /\ RestIdle /\ arg \in {<<u>> : u \in DelayInputs} /\ ret = << >>

ApplyReconnectDelay ==
    /\ ret = << >>
    /\ ret' = <<reconnect_delay(arg[1])>>
    /\ UNCHANGED <<arg, supVars, restVars>>

SpecDelay == DelayInit /\ [][ApplyReconnectDelay]_vars

\* thread_stack_size(8 * 1024 * 1024)
STACK_BUDGET == 8 * 1024 * 1024

GuardInputs == (STACK_LIMIT - MaxSpread) .. (STACK_LIMIT + MaxSpread)

GuardInit ==
    SupInit /\ RestIdle /\ arg \in {<<x>> : x \in GuardInputs} /\ ret = << >>

\* the monitors as a successful connect leaves them
DiscordConnected == DiscordMonitor_collect(DiscordMonitor_new, "connect_ok").m
TelegramConnected ==
    TelegramMonitor_collect(TelegramMonitor_new, "connect_ok", 0).m

\* the guard as telegram_utils has it and as TelegramMonitor::collect
\* inlines it while Connected, and one collect() of each Connected monitor
\* on a thread whose stack usage is arg[1]
ApplyStackGuard ==
    /\ ret = << >>
    /\ \E dev \in DiscordEvents(DiscordConnected),
          tev \in TelegramEvents(TelegramConnected) :
         ret' = <<[utils |-> should_reconnect_for_stack(arg[1]),
                   dms |-> TelegramMonitor_collect(
                              TelegramConnected, "update_ignored",
                              arg[1]).veto,
                   discord |-> DiscordMonitor_collect(DiscordConnected, dev),
                   telegram |-> TelegramMonitor_collect(
                                   TelegramConnected, tev, arg[1])]>>
    /\ UNCHANGED <<arg, supVars, restVars>>

SpecGuard == GuardInit /\ [][ApplyStackGuard]_vars

(***************************************************************************)
(* The session file: the first step of connect (dms/telegram.rs and        *)
(* telegram_utils.rs carry the same lines).                                *)
(***************************************************************************)
\* what can be found at the session path: nothing, a sound database, a file
\* whose header is not SQLite's, a database with damaged pages, a file the
\* process may not open
SessionFiles ==
    {"absent", "database", "not_a_database", "malformed", "unreadable"}

\* the files whose content is damaged
CorruptedFiles == {"not_a_database", "malformed"}

SqliteError(msg, code) == [msg |-> msg, code |-> code]

\* SqliteSession::open(&session_file): opens the database, creating it when
\* the path is free; the error carries SQLite's message and result code
SqliteSession_open(file, dir_writable) ==
    CASE file = "database" ->
            [ok |-> TRUE, file |-> "database"]
      [] file = "absent" ->
            IF dir_writable
            THEN [ok |-> TRUE, file |-> "database"]
            ELSE [ok |-> FALSE, file |-> file,
                  err |-> SqliteError("unable to open database file", 14)]
      [] file = "not_a_database" ->
            [ok |-> FALSE, file |-> file,
             err |-> SqliteError("file is not a database", 26)]
      [] file = "malformed" ->
            [ok |-> FALSE, file |-> file,
             err |-> SqliteError("database disk image is malformed", 11)]
      [] file = "unreadable" ->
            [ok |-> FALSE, file |-> file,
             err |-> SqliteError("unable to open database file", 14)]

\* std::fs::remove_file(&session_file)
remove_file(file, dir_writable) ==
    IF dir_writable /\ file # "absent"
    THEN [ok |-> TRUE, file |-> "absent"]
    ELSE [ok |-> FALSE, file |-> file]

\* err_str.contains("not a database") || err_str.contains("code 26")
is_corruption_error(err) ==
    err.msg = "file is not a database" \/ err.code = 26

\* let session = match SqliteSession::open(&session_file) { .. }: the
\* session to connect with, or the error connect() returns
open_session(file, dir_writable) ==
    LET first == SqliteSession_open(file, dir_writable)
    IN  IF first.ok
        THEN [result |-> "session", file |-> first.file, removed |-> FALSE]
        ELSE IF is_corruption_error(first.err)
        THEN LET rm == remove_file(first.file, dir_writable)
             IN  IF ~rm.ok
                 THEN [result |-> "Err", file |-> rm.file, removed |-> FALSE]
                 ELSE LET again == SqliteSession_open(rm.file, dir_writable)
                      IN  [result |-> IF again.ok THEN "session" ELSE "Err",
                           file |-> again.file, removed |-> TRUE]
        ELSE [result |-> "Err", file |-> first.file, removed |-> FALSE]

SessionInit ==
    /\ SupInit
    /\ RestIdle
    /\ arg \in {<<file>> : file \in SessionFiles}
    /\ ret = << >>

\* one connect attempt opens the session file; arg is the file on disk, ret
\* the log of the attempts made so far
OpenSession ==
    /\ Len(ret) < MaxOpens
    /\ \E dir_writable \in BOOLEAN :
         LET r == open_session(arg[1], dir_writable)
         IN  /\ arg' = <<r.file>>
             /\ ret' = Append(ret, [before |-> arg[1],
                                    dir_writable |-> dir_writable,
                                    result |-> r.result,
                                    removed |-> r.removed,
                                    after |-> r.file])
    /\ UNCHANGED <<supVars, restVars>>

SpecSession == SessionInit /\ [][OpenSession]_vars

(***************************************************************************)
(* twitter_schedule::parse_poll_text.  A string is the sequence of its     *)
(* characters, a text the sequence of its lines (text.lines()).            *)
(***************************************************************************)
\* char::is_whitespace, for the characters the inputs are made of
is_whitespace(c) == c \in {" ", "\t", "\n"}

RECURSIVE trim_start(_)
trim_start(s) ==
    IF s # << >> /\ is_whitespace(Head(s)) THEN trim_start(Tail(s)) ELSE s

RECURSIVE trim_end(_)
trim_end(s) ==
    IF s # << >> /\ is_whitespace(s[Len(s)])
    THEN trim_end(SubSeq(s, 1, Len(s) - 1))
    ELSE s

\* str::trim
trim(s) == trim_end(trim_start(s))

\* str::strip_prefix: <<rest>> for Some(rest), << >> for None
strip_prefix(s, prefix) ==
    IF Len(s) >= Len(prefix) /\ SubSeq(s, 1, Len(prefix)) = prefix
    THEN <<SubSeq(s, Len(prefix) + 1, Len(s))>>
    ELSE << >>

\* [&str]::join
RECURSIVE join(_, _)
join(lines, sep) ==
    IF lines = << >> THEN << >>
    ELSE IF Len(lines) = 1 THEN lines[1]
    ELSE lines[1] \o sep \o join(Tail(lines), sep)

\* str::replace: every non-overlapping match, left to right
RECURSIVE replace(_, _, _)
replace(s, from, to) ==
    IF s = << >> THEN << >>
    ELSE IF strip_prefix(s, from) # << >>
    THEN to \o replace(strip_prefix(s, from)[1], from, to)
    ELSE <<Head(s)>> \o replace(Tail(s), from, to)

\* "- [ ] "
OPTION_PREFIX == <<"-", " ", "[", " ", "]", " ">>

\* for line in text.lines() { .. }
RECURSIVE scan_lines(_, _, _)
scan_lines(lines, tweet_lines, poll_options) ==
    IF lines = << >>
    THEN [tweet_lines |-> tweet_lines, poll_options |-> poll_options]
    ELSE LET line == Head(lines)
             trimmed == trim(line)
             option_text == strip_prefix(trimmed, OPTION_PREFIX)
         IN  IF option_text # << >>
             THEN scan_lines(Tail(lines), tweet_lines,
                             Append(poll_options, option_text[1]))
             ELSE scan_lines(Tail(lines), Append(tweet_lines, line),
                             poll_options)

\* for (key, value) in variables { tweet_text.replace("${key}", value) }
RECURSIVE substitute(_, _)
substitute(text, variables) ==
    IF variables = << >> THEN text
    ELSE substitute(
            replace(text, <<"$", "{">> \o Head(variables).key \o <<"}">>,
                    Head(variables).value),
            Tail(variables))

\* faulty variant of parse_poll_text: a fourth option is already too many
parse_poll_text_max_three(lines, variables) ==
    LET sc == scan_lines(lines, << >>, << >>)
        tweet_text ==
            substitute(trim(join(sc.tweet_lines, <<"\n">>)), variables)
    IN  IF sc.poll_options = << >>
        THEN [ok |-> FALSE, err |-> "No poll options found"]
        ELSE IF Len(sc.poll_options) > 3
        THEN [ok |-> FALSE, err |-> "maximum 4 options"]
        ELSE [ok |-> TRUE, tweet_text |-> tweet_text,
              poll_options |-> sc.poll_options]

\* parse_poll_text
parse_poll_text(lines, variables) ==
    LET sc == scan_lines(lines, << >>, << >>)
        tweet_text ==
            substitute(trim(join(sc.tweet_lines, <<"\n">>)), variables)
    IN  IF sc.poll_options = << >>
        THEN \* bail!("No poll options found in text. ..")
             [ok |-> FALSE, err |-> "No poll options found"]
        ELSE IF Len(sc.poll_options) > 4
        THEN \* bail!("Twitter polls support maximum 4 options, found {}")
             [ok |-> FALSE, err |-> "maximum 4 options"]
        ELSE [ok |-> TRUE, tweet_text |-> tweet_text,
              poll_options |-> sc.poll_options]

\* the lines the input texts are made of: plain text, an option, an
\* indented option with a trailing blank, the prefix with nothing after it,
\* an empty line, a placeholder
PollLines ==
    {<<"h", "i">>,
     <<"-", " ", "[", " ", "]", " ", "a">>,
     <<" ", "-", " ", "[", " ", "]", " ", "b", " ">>,
     <<"-", " ", "[", " ", "]", " ">>,
     << >>,
     <<"$", "{", "p", "}">>}

PollInputs == UNION {[1 .. n -> PollLines] : n \in 0 .. MaxLines}

\* the variables handed to parse_poll_text: p = "1"
PollVariables == <<[key |-> <<"p">>, value |-> <<"1">>]>>

PollInit ==
    SupInit /\ RestIdle /\ arg \in {<<t>> : t \in PollInputs} /\ ret = << >>

ApplyParsePollText ==
    /\ ret = << >>
    /\ ret' = <<parse_poll_text(arg[1], PollVariables)>>
    /\ UNCHANGED <<arg, supVars, restVars>>

SpecPoll == PollInit /\ [][ApplyParsePollText]_vars

(***************************************************************************)
(* The channel-watch daemon (src/src/telegram_channel_watch.rs): main's    *)
(* loop around run_telegram_monitor, which connects, resolves the channels *)
(* and then loops over select(updates.next(), runner).                     *)
(***************************************************************************)

\* let mut attempt = 0u32; loop { run_telegram_monitor(&config) .. }: the
\* daemon at the call, with no session yet
WatchCall(w, attempt) ==
    [w EXCEPT !.pc = "run", !.stage = "connect", !.attempt = attempt,
              !.runner = None, !.message_counter = 0, !.last_ev = None]

\* run_telegram_monitor ends: its client, updates and runner are dropped and
\* catch_unwind hands result to the match; cause names the exit taken
\* (last_ev: what the last completed loop iteration got from the select)
WatchYield(w, result, cause) ==
    [w EXCEPT !.pc = "match", !.stage = None, !.runner = None,
              !.message_counter = 0, !.last_ev = None, !.result = result,
              !.cause = cause, !.failed_at = w.attempt]

\* what the next await of run_telegram_monitor can meet
WatchEvents(w) ==
    IF w.stage \in {"connect", "resolve"} THEN {"ok", "err", "panic"}
    ELSE {"update_err", "panic"}
         \cup (IF w.message_counter < MaxMessages THEN {"update"} ELSE {})
         \cup (IF w.runner = "exited" THEN {"runner_exited"} ELSE {})

\* faulty variant of run_telegram_monitor: the runner's exit ends the loop
\* with Ok(())
run_telegram_monitor_clean_exit(w, ev, stack_used) ==
    IF ev = "panic" THEN WatchYield(w, "Err(panic)", "panic")
    ELSE IF w.stage = "connect"
    THEN IF ev = "ok"
         THEN [w EXCEPT !.stage = "resolve", !.runner = "running"]
         ELSE WatchYield(w, "Ok(Err)", "connect")
    ELSE IF w.stage = "resolve"
    THEN IF ev = "ok"
         THEN [w EXCEPT !.stage = "loop"]
         ELSE WatchYield(w, "Ok(Err)", "resolve")
    ELSE \* if telegram_utils::should_reconnect_for_stack() { bail!(..) }
         IF should_reconnect_for_stack(stack_used)
    THEN WatchYield(w, "Ok(Err)", "stack")
    ELSE \* match select(update_fut, runner_fut).await
         CASE ev = "runner_exited" -> WatchYield(w, "Ok(Ok)", "runner")
           [] ev = "update_err" -> [w EXCEPT !.last_ev = ev]
           [] ev = "update" ->
                [w EXCEPT !.message_counter = @ + 1, !.last_ev = ev]

\* faulty variant of run_telegram_monitor: an error of updates.next() is
\* propagated
run_telegram_monitor_err_ends(w, ev, stack_used) ==
    IF ev = "panic" THEN WatchYield(w, "Err(panic)", "panic")
    ELSE IF w.stage = "connect"
    THEN IF ev = "ok"
         THEN [w EXCEPT !.stage = "resolve", !.runner = "running"]
         ELSE WatchYield(w, "Ok(Err)", "connect")
    ELSE IF w.stage = "resolve"
    THEN IF ev = "ok"
         THEN [w EXCEPT !.stage = "loop"]
         ELSE WatchYield(w, "Ok(Err)", "resolve")
    ELSE \* if telegram_utils::should_reconnect_for_stack() { bail!(..) }
         IF should_reconnect_for_stack(stack_used)
    THEN WatchYield(w, "Ok(Err)", "stack")
    ELSE \* match select(update_fut, runner_fut).await
         CASE ev = "runner_exited" -> WatchYield(w, "Ok(Err)", "runner")
           [] ev = "update_err" -> WatchYield(w, "Ok(Err)", "update")
           [] ev = "update" ->
                [w EXCEPT !.message_counter = @ + 1, !.last_ev = ev]

\* run_telegram_monitor up to its next stage: telegram_utils::connect(..)?,
\* the channel resolution with its ? and bail!, then one iteration of the
\* event loop
run_telegram_monitor(w, ev, stack_used) ==
    IF ev = "panic" THEN WatchYield(w, "Err(panic)", "panic")
    ELSE IF w.stage = "connect"
    THEN IF ev = "ok"
         THEN [w EXCEPT !.stage = "resolve", !.runner = "running"]
         ELSE WatchYield(w, "Ok(Err)", "connect")
    ELSE IF w.stage = "resolve"
    THEN IF ev = "ok"
         THEN [w EXCEPT !.stage = "loop"]
         ELSE WatchYield(w, "Ok(Err)", "resolve")
    ELSE \* if telegram_utils::should_reconnect_for_stack() { bail!(..) }
         IF should_reconnect_for_stack(stack_used)
    THEN WatchYield(w, "Ok(Err)", "stack")
    ELSE \* match select(update_fut, runner_fut).await
         CASE ev = "runner_exited" -> WatchYield(w, "Ok(Err)", "runner")
           [] ev = "update_err" -> [w EXCEPT !.last_ev = ev]
           [] ev = "update" ->
                [w EXCEPT !.message_counter = @ + 1, !.last_ev = ev]

WatchInit ==
    /\ SupInit
    /\ FnIdle
    /\ conn = None
    /\ JobsIdle
    /\ watch = WatchCall([pc |-> None, stage |-> None, attempt |-> 0,
                          runner |-> None, message_counter |-> 0,
                          result |-> None, cause |-> None, failed_at |-> 0,
                          delay |-> 0, last_ev |-> None], 0)

\* run_telegram_monitor advances by one stage
WatchStep ==
    /\ watch.pc = "run"
    /\ \E ev \in WatchEvents(watch),
          stack_used \in (IF watch.stage = "loop" THEN StackSamples ELSE {0}) :
         /\ watch' = run_telegram_monitor(watch, ev, stack_used)
         /\ watch'.pc = "match" => watch.attempt < MaxReconnects
    /\ UNCHANGED <<supVars, fnVars, conn, jobVars>>

\* the MTProto runner future of the session in use becomes ready: the
\* driver has terminated
RunnerExits ==
    /\ watch.pc = "run"
    /\ watch.runner = "running"
    /\ watch' = [watch EXCEPT !.runner = "exited"]
    /\ UNCHANGED <<supVars, fnVars, conn, jobVars>>

\* match result: Ok(Ok(())) resets attempt and calls again at once; Ok(Err(e))
\* and Err(panic_info) take delay = reconnect_delay(attempt) and sleep
WatchReact ==
    /\ watch.pc = "match"
    /\ watch' = IF watch.result = "Ok(Ok)"
                THEN WatchCall(watch, 0)
                ELSE [watch EXCEPT !.pc = "sleep",
                         !.delay = reconnect_delay(U32(watch.attempt))]
    /\ UNCHANGED <<supVars, fnVars, conn, jobVars>>

\* tokio::time::sleep(delay).await returns; attempt += 1; next iteration
WatchSleepElapsed ==
    /\ watch.pc = "sleep"
    /\ watch' = WatchCall(watch, watch.attempt + 1)
    /\ UNCHANGED <<supVars, fnVars, conn, jobVars>>

WatchNext ==
    \/ WatchStep
    \/ RunnerExits
    \/ WatchReact
    \/ WatchSleepElapsed

SpecWatch == WatchInit /\ [][WatchNext]_vars

(***************************************************************************)
(* One monitor's connection: the websocket (Discord) or update stream      *)
(* (Telegram) its collect() reads, the heartbeat interval and the MTProto  *)
(* runner task, with the collect() calls made on it one after the other.   *)
(***************************************************************************)

\* faulty variant of select: the second future is polled first
select_second_first(a_ready, b_ready) ==
    IF b_ready THEN "Right" ELSE IF a_ready THEN "Left" ELSE "Pending"

\* futures_util::future::select(a, b): one poll polls a, then b, and returns
\* the first that is ready
select(a_ready, b_ready) ==
    IF a_ready THEN "Left" ELSE IF b_ready THEN "Right" ELSE "Pending"

\* faulty variant of stream_next: the newest buffered item is yielded
stream_next_newest(inbox) ==
    [item |-> inbox[Len(inbox)], rest |-> SubSeq(inbox, 1, Len(inbox) - 1)]

\* read.next() / updates.next() on a stream that has items buffered: the
\* oldest one is yielded and the others stay
stream_next(inbox) == [item |-> Head(inbox), rest |-> Tail(inbox)]

TickEvents ==
    {"heartbeat_sent", "heartbeat_send_failed", "heartbeat_encode_err"}
StreamErrors == {"websocket_err", "websocket_closed", "next_err"}

\* which future a Connected collect() comes back from: Discord's
\* select(heartbeat_fut, msg_fut), Telegram's updates.next()
Side(c) ==
    LET stream_ready == c.inbox # << >> \/ c.broken
    IN  IF c.kind = "Discord" THEN select(c.due, stream_ready)
        ELSE select(FALSE, stream_ready)

\* what this collect() can meet on connection c
ConnEvents(c) ==
    IF c.m.state = "Disconnected" THEN Events(c.kind, c.m)
    ELSE LET side == Side(c)
         IN  CASE side = "Pending" -> {}
               [] side = "Left" -> TickEvents \cup {"panic"}
               [] side = "Right" ->
                    IF c.inbox # << >>
                    THEN Events(c.kind, c.m)
                            \ (TickEvents \cup StreamErrors)
                    ELSE (Events(c.kind, c.m) \cap StreamErrors)
                            \cup {"panic"}

\* a connection as the Ok arm of connect() leaves it: nothing buffered, the
\* interval's first tick due at once, the runner task spawned
Connection(kind, m) ==
    [kind |-> kind, m |-> m,
     runner |-> IF kind = "Telegram" /\ m.state = "Connected"
                THEN "running" ELSE None,
     due |-> (kind = "Discord" /\ m.state = "Connected"),
     broken |-> FALSE, inbox |-> << >>, arrived |-> 0, log |-> << >>,
     last |-> [pre |-> None, due |-> FALSE, avail |-> FALSE, took |-> None,
               outcome |-> None],
     tick_wait |-> 0, msg_wait |-> 0, exit_calls |-> 0]

\* faulty variant of Advance: the read that the select drops when the tick
\* wins has taken its item
Advance_tick_drops_message(c, ev, stack_used) ==
    LET r == Collect(c.kind, c.m, ev, stack_used)
        took == IF r.ops = << >> THEN "veto"
                ELSE IF r.ops[1] = "connect" THEN "connect"
                ELSE IF Side(c) = "Left" THEN "tick"
                ELSE IF c.inbox # << >> THEN "message"
                ELSE "stream_error"
        last == [pre |-> c.m.state, due |-> c.due, avail |-> c.inbox # << >>,
                 took |-> took, outcome |-> r.outcome]
    IN  IF took = "connect"
        THEN IF r.m.state = "Connected"
             THEN [Connection(c.kind, r.m) EXCEPT !.last = last]
             ELSE [c EXCEPT !.last = last]
        ELSE [c EXCEPT
                !.m = r.m,
                !.last = last,
                !.due = IF took = "tick" THEN FALSE ELSE @,
                !.inbox = IF took \in {"message", "tick"} /\ @ # << >>
                         THEN stream_next(@).rest ELSE @,
                !.log = Append(@, [kind |-> took,
                                   id |-> IF took = "message"
                                          THEN stream_next(c.inbox).item
                                          ELSE 0]),
                !.tick_wait = IF c.due /\ took # "tick" THEN @ + 1 ELSE 0,
                !.msg_wait = IF c.inbox # << >> /\ took # "message"
                             THEN @ + 1 ELSE 0,
                !.exit_calls = IF c.runner = "exited" THEN @ + 1 ELSE @]

\* one collect() on connection c
Advance(c, ev, stack_used) ==
    LET r == Collect(c.kind, c.m, ev, stack_used)
        took == IF r.ops = << >> THEN "veto"
                ELSE IF r.ops[1] = "connect" THEN "connect"
                ELSE IF Side(c) = "Left" THEN "tick"
                ELSE IF c.inbox # << >> THEN "message"
                ELSE "stream_error"
        last == [pre |-> c.m.state, due |-> c.due, avail |-> c.inbox # << >>,
                 took |-> took, outcome |-> r.outcome]
    IN  IF took = "connect"
        THEN IF r.m.state = "Connected"
             THEN [Connection(c.kind, r.m) EXCEPT !.last = last]
             ELSE [c EXCEPT !.last = last]
        ELSE [c EXCEPT
                !.m = r.m,
                !.last = last,
                !.due = IF took = "tick" THEN FALSE ELSE @,
                !.inbox = IF took = "message" THEN stream_next(@).rest ELSE @,
                !.log = Append(@, [kind |-> took,
                                   id |-> IF took = "message"
                                          THEN stream_next(c.inbox).item
                                          ELSE 0]),
                !.tick_wait = IF c.due /\ took # "tick" THEN @ + 1 ELSE 0,
                !.msg_wait = IF c.inbox # << >> /\ took # "message"
                             THEN @ + 1 ELSE 0,
                !.exit_calls = IF c.runner = "exited" THEN @ + 1 ELSE @]

ConnInit ==
    /\ SupInit
    /\ FnIdle
    /\ watch = None
    /\ JobsIdle
    /\ conn \in {Connection("Discord", DiscordMonitor_new),
                 Connection("Telegram", TelegramMonitor_new)}

\* m.collect() is called and returns; while Connected it returns only once
\* one of the futures it waits on is ready
ConnCollect ==
    /\ conn.m.state = "Connected" => Len(conn.log) < MaxCalls
    /\ \E stack_used \in Samples(conn.kind, conn.m) :
         \E ev \in (IF conn.kind = "Telegram" /\ conn.m.state = "Connected"
                        /\ TelegramMonitor_collect(conn.m, "update_ignored",
                                                   stack_used).veto
                    THEN {"update_ignored"} ELSE ConnEvents(conn)) :
             conn' = Advance(conn, ev, stack_used)
    /\ UNCHANGED <<supVars, fnVars, watch, jobVars>>

\* the peer's next event reaches the socket
Arrive ==
    /\ conn.m.state = "Connected"
    /\ ~conn.broken
    /\ conn.runner # "exited"
    /\ conn.arrived < MaxArrivals
    /\ conn' = [conn EXCEPT !.arrived = @ + 1,
                            !.inbox = Append(@, conn.arrived + 1)]
    /\ UNCHANGED <<supVars, fnVars, watch, jobVars>>

\* time::interval(Duration::from_secs(heartbeat_secs)): the period elapses
TickDue ==
    /\ conn.kind = "Discord"
    /\ conn.m.state = "Connected"
    /\ ~conn.due
    /\ conn' = [conn EXCEPT !.due = TRUE]
    /\ UNCHANGED <<supVars, fnVars, watch, jobVars>>

\* the websocket fails or is closed by the peer; the update stream starts to
\* return Err
StreamBreaks ==
    /\ conn.m.state = "Connected"
    /\ ~conn.broken
    /\ conn' = [conn EXCEPT !.broken = TRUE]
    /\ UNCHANGED <<supVars, fnVars, watch, jobVars>>

\* the task of tokio::spawn(runner.run()) ends
DriverExits ==
    /\ conn.m.state = "Connected"
    /\ conn.runner = "running"
    /\ conn' = [conn EXCEPT !.runner = "exited"]
    /\ UNCHANGED <<supVars, fnVars, watch, jobVars>>

ConnNext ==
    \/ ConnCollect
    \/ Arrive
    \/ TickDue
    \/ StreamBreaks
    \/ DriverExits

SpecConn == ConnInit /\ [][ConnNext]_vars

(***************************************************************************)
(* DiscordMonitor::handle_message (src/src/dms/discord.rs): which          *)
(* notification a dispatched message causes and when the time of the last  *)
(* message of its channel is recorded.  Times are in milliseconds.         *)
(***************************************************************************)

\* HashMap<String, Timestamp> as its set of entries
get(map, key) == {e.time : e \in {x \in map : x.channel = key}}
insert(map, key, time) ==
    {e \in map : e.channel # key} \cup {[channel |-> key, time |-> time]}

\* SignedDuration::as_secs: whole seconds, rounded toward zero
as_secs(ms) == IF ms >= 0 THEN ms \div Millis ELSE -((-ms) \div Millis)

\* what handle_message returns: its Result, the map it leaves, the
\* notifications it tried to send
Handled(ok, times, sends) == [ok |-> ok, times |-> times, sends |-> sends]

\* faulty variant of handle_message: the /ping branch records the time too
handle_message_records_pings(times, data, now, env) ==
    IF ~(data.author /\ data.content /\ data.channel_id)
    THEN Handled(TRUE, times, << >>)
    ELSE IF data.has_ping /\ ~data.is_my_message
    THEN IF ~data.is_dm /\ ~env.encode_ok
         THEN Handled(FALSE, times, << >>)
         ELSE IF data.is_dm \/ data.has_mention \/ data.is_reply_to_me
         THEN IF env.send_ok
              THEN Handled(TRUE, insert(times, Channel, now), <<"ping">>)
              ELSE Handled(FALSE, times, <<"ping">>)
         ELSE Handled(TRUE, insert(times, Channel, now), << >>)
    ELSE IF data.is_monitored_user /\ data.is_dm /\ ~data.has_ping
    THEN LET last == get(times, Channel)
             should_notify ==
                 \A last_time \in last : as_secs(now - last_time) >= 15 * 60
         IN  IF should_notify
             THEN IF env.send_ok
                  THEN Handled(TRUE, insert(times, Channel, now),
                               <<"monitored">>)
                  ELSE Handled(FALSE, times, <<"monitored">>)
             ELSE Handled(TRUE, insert(times, Channel, now), << >>)
    ELSE Handled(TRUE, insert(times, Channel, now), << >>)

\* DiscordMonitor::handle_message for a message of channel Channel; data
\* holds which fields the event carries and what the tests on them give, env
\* whether serde_json::to_string and the notification send succeed
handle_message(times, data, now, env) ==
    IF ~(data.author /\ data.content /\ data.channel_id)
    THEN Handled(TRUE, times, << >>)
    ELSE IF data.has_ping /\ ~data.is_my_message
    THEN \* serde_json::to_string(data)? runs outside DMs only
         IF ~data.is_dm /\ ~env.encode_ok
         THEN Handled(FALSE, times, << >>)
         ELSE IF data.is_dm \/ data.has_mention \/ data.is_reply_to_me
         THEN \* self.telegram.send_ping_notification(author, "Discord").await?
              IF env.send_ok
              THEN Handled(TRUE, times, <<"ping">>)
              ELSE Handled(FALSE, times, <<"ping">>)
         ELSE Handled(TRUE, times, << >>)
    ELSE IF data.is_monitored_user /\ data.is_dm /\ ~data.has_ping
    THEN LET last == get(times, Channel)
             should_notify ==
                 \A last_time \in last : as_secs(now - last_time) >= 15 * 60
         IN  IF should_notify
             THEN \* send_monitored_user_message(author, "Discord").await?
                  IF env.send_ok
                  THEN Handled(TRUE, insert(times, Channel, now),
                               <<"monitored">>)
                  ELSE Handled(FALSE, times, <<"monitored">>)
             ELSE Handled(TRUE, insert(times, Channel, now), << >>)
    ELSE Handled(TRUE, insert(times, Channel, now), << >>)

\* Timestamp::now() of the call, and how long before it the channel's
\* recorded message can lie
Now == 2 * 15 * 60 * Millis
Ages == {-Millis, 0, 15 * 60 * Millis - 1, 15 * 60 * Millis,
         15 * 60 * Millis + 1}
OtherChannel == "other"

HandleTimes ==
    {c \cup o : c \in {{}} \cup {{[channel |-> Channel, time |-> Now - a]} :
                                    a \in Ages},
                o \in {{}, {[channel |-> OtherChannel, time |-> Now - 1]}}}

HandleData ==
    [author : BOOLEAN, content : BOOLEAN, channel_id : BOOLEAN,
     is_dm : BOOLEAN, has_ping : BOOLEAN, is_monitored_user : BOOLEAN,
     is_my_message : BOOLEAN, has_mention : BOOLEAN,
     is_reply_to_me : BOOLEAN]

HandleEnv == [encode_ok : BOOLEAN, send_ok : BOOLEAN]

HandleInit ==
    /\ SupInit
    /\ RestIdle
    /\ arg \in {<<[times |-> t, data |-> d, env |-> e]>> :
                    t \in HandleTimes, d \in HandleData, e \in HandleEnv}
    /\ ret = << >>

ApplyHandleMessage ==
    /\ ret = << >>
    /\ ret' = <<handle_message(arg[1].times, arg[1].data, Now, arg[1].env)>>
    /\ UNCHANGED <<arg, supVars, restVars>>

SpecHandle == HandleInit /\ [][ApplyHandleMessage]_vars

(***************************************************************************)
(* schedule_sentiment_poll (src/src/twitter_schedule.rs): the loop that    *)
(* posts a poll every schedule interval, each cycle trying post_poll up to *)
(* num_of_retries times.                                                   *)
(***************************************************************************)
MaxRetries == 3
MaxCycles == 3

\* poll_config.schedule_every.duration(), in hours
Intervals == {1, 4}

\* the scheduler before its first step; poll is whether twitter.poll is set
Scheduler(poll, num_of_retries, schedule_every, skip_first) ==
    [pc |-> "init", poll |-> poll, num_of_retries |-> num_of_retries,
     schedule_duration |-> schedule_every, skip_first |-> skip_first,
     cycle |-> 0, attempt |-> 0, success |-> FALSE, posts |-> 0,
     sleeping |-> 0, history |-> << >>]

\* time::sleep(schedule_duration) at the end of a cycle
EndCycle(s, success) ==
    [s EXCEPT !.pc = "sleep", !.success = success,
              !.sleeping = s.schedule_duration,
              !.history = Append(@, [success |-> success,
                                     posts |-> s.posts
                                         + (IF s.pc = "post" THEN 1 ELSE 0)])]

\* the head of the loop: success = false, then the first turn of
\* `for attempt in 1..=num_of_retries`, which is empty for 0 retries
BeginCycle(s) ==
    LET c == [s EXCEPT !.cycle = @ + 1, !.attempt = 1, !.success = FALSE,
                       !.posts = 0, !.sleeping = 0]
    IN  IF s.num_of_retries >= 1
        THEN [c EXCEPT !.pc = "post"]
        ELSE EndCycle([c EXCEPT !.attempt = 0], FALSE)

\* faulty variant of retry: no break after a success
retry_without_break(s, outcome) ==
    LET t == [s EXCEPT !.posts = @ + 1,
                       !.success = @ \/ outcome = "Ok"]
    IN  IF s.attempt = s.num_of_retries
        THEN [EndCycle(s, t.success) EXCEPT !.posts = t.posts]
        ELSE [t EXCEPT !.attempt = @ + 1]

\* one turn of the retry loop: match post_poll(config).await
retry(s, outcome) ==
    LET t == [s EXCEPT !.posts = @ + 1]
    IN  IF outcome = "Ok"
        THEN \* success = true; break
             [EndCycle(s, TRUE) EXCEPT !.posts = t.posts]
        ELSE IF s.attempt = s.num_of_retries
        THEN [EndCycle(s, FALSE) EXCEPT !.posts = t.posts]
        ELSE [t EXCEPT !.attempt = @ + 1]

SchedInit ==
    /\ SupInit
    /\ FnIdle
    /\ watch = None
    /\ conn = None
    /\ mail = None
    /\ db = None
    /\ sched \in {Scheduler(p, n, i, k) :
                      p \in BOOLEAN, n \in 0..MaxRetries, i \in Intervals,
                      k \in BOOLEAN}

\* twitter.poll missing: the function returns Err before the loop
ConfigMissing ==
    /\ sched.pc = "init"
    /\ ~sched.poll
    /\ sched' = [sched EXCEPT !.pc = "returned"]
    /\ UNCHANGED <<supVars, fnVars, watch, conn, mail, db>>

\* skip_first: one schedule interval is slept before the first cycle
SkipFirst ==
    /\ sched.pc = "init"
    /\ sched.poll
    /\ sched.skip_first
    /\ sched' = [sched EXCEPT !.pc = "skip", !.sleeping = sched.schedule_duration]
    /\ UNCHANGED <<supVars, fnVars, watch, conn, mail, db>>

\* the loop is entered: at once without skip_first, after the sleep with it
EnterLoop ==
    /\ \/ sched.pc = "init" /\ sched.poll /\ ~sched.skip_first
       \/ sched.pc = "skip"
    /\ sched' = BeginCycle(sched)
    /\ UNCHANGED <<supVars, fnVars, watch, conn, mail, db>>

\* post_poll(config).await returns
PostPoll ==
    /\ sched.pc = "post"
    /\ \E outcome \in {"Ok", "Err"} : sched' = retry(sched, outcome)
    /\ UNCHANGED <<supVars, fnVars, watch, conn, mail, db>>

\* time::sleep(schedule_duration) elapses and the loop starts over
CycleSleepElapsed ==
    /\ sched.pc = "sleep"
    /\ sched.cycle < MaxCycles
    /\ sched' = BeginCycle(sched)
    /\ UNCHANGED <<supVars, fnVars, watch, conn, mail, db>>

SchedNext ==
    \/ ConfigMissing
    \/ SkipFirst
    \/ EnterLoop
    \/ PostPoll
    \/ CycleSleepElapsed

SpecSched == SchedInit /\ [][SchedNext]_vars

(***************************************************************************)
(* EmailMonitor (src/src/email.rs) with the processed_emails table of      *)
(* Database (src/src/db.rs): every run fetches the unread messages and     *)
(* processes each one; process_message_oauth and process_email_common are  *)
(* the same steps over the Gmail API and over IMAP.                        *)
(***************************************************************************)
MaxMails == 2
MaxRuns == 2

MessageIds == 1..MaxMails

\* should_ignore(from): the sender matches an ignore pattern, or not
Senders == {"ignored", "other"}

\* what a call met: the two database calls, eval_is_human, and the action
\* (forward_to_telegram or mark_as_read); each call is followed by `?`, so
\* what comes after a failing one is never called and is left at failure
MailEnvs ==
    {e \in [is_processed_ok : BOOLEAN, eval : {"human", "automated", "Err"},
            action_ok : BOOLEAN, mark_processed_ok : BOOLEAN] :
        /\ ~e.is_processed_ok => e.eval = "Err"
        /\ e.eval = "Err" => ~e.action_ok
        /\ ~e.action_ok => ~e.mark_processed_ok}

\* Database::is_email_processed: count() > 0 over the rows of the id
is_email_processed(m, id) == id \in m.processed_emails

\* Database::mark_email_processed: INSERT of one row
mark_email_processed(m, id) ==
    [m EXCEPT !.processed_emails = @ \cup {id}]

\* the end of one call: its Result and what it did; the caller logs an Err
\* and goes on with the next message (failed: the ids logged with
\* "Failed to mark message as read" or a failed forward)
MailReturn(m, id, ok, skipped, action, action_ok) ==
    [m EXCEPT !.batch = @ \ {id},
              !.failed = IF action # "none" /\ ~action_ok
                         THEN @ \cup {id} ELSE @,
              !.last = [id |-> id, ok |-> ok, skipped |-> skipped,
                        action |-> action, action_ok |-> action_ok]]

\* mark_as_read then mark_email_processed, each followed by `?`
MarkReadThenRecord(m, id, env) ==
    IF ~env.action_ok
    THEN MailReturn(m, id, FALSE, FALSE, "read", FALSE)
    ELSE LET r == [m EXCEPT !.unread = @ \ {id}, !.reads[id] = @ + 1]
         IN  IF ~env.mark_processed_ok
             THEN MailReturn(r, id, FALSE, FALSE, "read", TRUE)
             ELSE MailReturn(mark_email_processed(r, id), id, TRUE, FALSE,
                             "read", TRUE)

\* faulty variant of ForwardThenRecord: the result of the forward is not
\* looked at, the message is recorded either way
ForwardThenRecord_unchecked(m, id, env) ==
    LET f == IF env.action_ok THEN [m EXCEPT !.forwards[id] = @ + 1] ELSE m
    IN  MailReturn(mark_email_processed(f, id), id, TRUE, FALSE, "forward",
                   env.action_ok)

\* forward_to_telegram then mark_email_processed, each followed by `?`
ForwardThenRecord(m, id, env) ==
    IF ~env.action_ok
    THEN MailReturn(m, id, FALSE, FALSE, "forward", FALSE)
    ELSE LET f == [m EXCEPT !.forwards[id] = @ + 1]
         IN  IF ~env.mark_processed_ok
             THEN MailReturn(f, id, FALSE, FALSE, "forward", TRUE)
             ELSE MailReturn(mark_email_processed(f, id), id, TRUE, FALSE,
                             "forward", TRUE)

\* process_email_common, and process_message_oauth from its check of the
\* processed ids on
process_email_common(m, id, env) ==
    IF ~env.is_processed_ok
    THEN MailReturn(m, id, FALSE, FALSE, "none", FALSE)
    ELSE IF is_email_processed(m, id)
    THEN \* already processed, skipping
         MailReturn(m, id, TRUE, TRUE, "none", FALSE)
    ELSE IF m.from[id] = "ignored"
    THEN MarkReadThenRecord(m, id, env)
    ELSE LET e == [m EXCEPT !.evals[id] = @ + 1]
         IN  IF env.eval = "Err"
             THEN MailReturn(e, id, FALSE, FALSE, "none", FALSE)
             ELSE IF env.eval = "human"
             THEN ForwardThenRecord(e, id, env)
             ELSE MarkReadThenRecord(e, id, env)

NoMail ==
    [id |-> 0, ok |-> TRUE, skipped |-> FALSE, action |-> "none",
     action_ok |-> FALSE]

MailInit ==
    /\ SupInit
    /\ FnIdle
    /\ watch = None
    /\ conn = None
    /\ sched = None
    /\ db = None
    /\ mail \in {[from |-> f, unread |-> MessageIds, processed_emails |-> {},
                  batch |-> {}, runs |-> 0,
                  forwards |-> [i \in MessageIds |-> 0],
                  reads |-> [i \in MessageIds |-> 0],
                  evals |-> [i \in MessageIds |-> 0],
                  failed |-> {}, last |-> NoMail] : f \in [MessageIds -> Senders]}

\* a run starts: the unread messages are fetched (UNSEEN, is:unread)
FetchUnread ==
    /\ mail.batch = {}
    /\ mail.runs < MaxRuns
    /\ mail' = [mail EXCEPT !.batch = mail.unread, !.runs = @ + 1]
    /\ UNCHANGED <<supVars, fnVars, watch, conn, sched, db>>

\* the run's loop processes one fetched message; an error is only logged
ProcessMessage ==
    /\ \E id \in mail.batch, env \in MailEnvs :
           mail' = process_email_common(mail, id, env)
    /\ UNCHANGED <<supVars, fnVars, watch, conn, sched, db>>

MailNext == FetchUnread \/ ProcessMessage

SpecMail == MailInit /\ [][MailNext]_vars

(***************************************************************************)
(* Database::migrate (src/src/db.rs): the migrations table holds one row   *)
(* per recorded version; migrate reads the highest one and runs the        *)
(* migrations above it.                                                    *)
(***************************************************************************)
MaxMigrations == 2
MaxMigrates == 3

\* max(version) over the rows of the migrations table
max_version(rows) ==
    CHOOSE v \in {rows[i] : i \in 1..Len(rows)} :
        \A i \in 1..Len(rows) : rows[i] <= v

\* Database::get_migration_version: a failed count query counts as 0 rows,
\* and 0 rows give version -1; a failed max query is an Err
get_migration_version(rows, count_ok, max_ok) ==
    LET count == IF count_ok THEN Len(rows) ELSE 0
    IN  IF count = 0
        THEN [ok |-> TRUE, version |-> -1]
        ELSE IF max_ok
        THEN [ok |-> TRUE, version |-> max_version(rows)]
        ELSE [ok |-> FALSE, version |-> -1]

\* migrate returns: Ok(()) after the loop, Err from any `?`
MigrateReturn(d, ok) ==
    [d EXCEPT !.pc = "idle", !.complete = ok]

\* the database a process finds: MIGRATIONS of length len, nothing recorded
DatabaseNew(len) ==
    [len |-> len, rows |-> << >>, applied |-> << >>, pc |-> "idle",
     calls |-> 0, current_version |-> -1, idx |-> 0, complete |-> FALSE,
     started_at |-> << >>]

DbInit ==
    /\ SupInit
    /\ FnIdle
    /\ watch = None
    /\ conn = None
    /\ sched = None
    /\ mail = None
    /\ db \in {DatabaseNew(len) : len \in 1..MaxMigrations}

\* migrate is called: ensure_database_exists and
\* ensure_migrations_table_exists, then get_migration_version
MigrateStart ==
    /\ db.pc = "idle"
    /\ db.calls < MaxMigrates
    /\ \E ensure_ok \in BOOLEAN, count_ok \in BOOLEAN, max_ok \in BOOLEAN :
           LET d == [db EXCEPT !.calls = @ + 1, !.idx = 0,
                               !.complete = FALSE, !.started_at = db.rows]
               v == get_migration_version(db.rows, count_ok, max_ok)
           IN  db' = IF ~ensure_ok \/ ~v.ok
                     THEN MigrateReturn(d, FALSE)
                     ELSE [d EXCEPT !.pc = "loop",
                                    !.current_version = v.version]
    /\ UNCHANGED <<supVars, fnVars, watch, conn, sched, mail>>

\* one turn of `for (idx, migration) in MIGRATIONS.iter().enumerate()`
MigrateStep ==
    /\ db.pc = "loop"
    /\ db.idx < db.len
    /\ \E execute_ok \in BOOLEAN, record_ok \in BOOLEAN :
           LET version == db.idx
               next == [db EXCEPT !.idx = @ + 1]
               done == [next EXCEPT !.applied = Append(@, version)]
           IN  db' = IF ~(version > db.current_version)
                     THEN next
                     ELSE IF ~execute_ok
                     THEN MigrateReturn(db, FALSE)
                     ELSE IF ~record_ok
                     THEN MigrateReturn([db EXCEPT !.applied =
                                             Append(@, version)], FALSE)
                     ELSE [done EXCEPT !.rows = Append(@, version)]
    /\ UNCHANGED <<supVars, fnVars, watch, conn, sched, mail>>

\* the loop is over: "Migrations complete", Ok(())
MigrateEnd ==
    /\ db.pc = "loop"
    /\ db.idx = db.len
    /\ db' = MigrateReturn(db, TRUE)
    /\ UNCHANGED <<supVars, fnVars, watch, conn, sched, mail>>

DbNext == MigrateStart \/ MigrateStep \/ MigrateEnd

SpecDb == DbInit /\ [][DbNext]_vars

(***************************************************************************)
(* Properties.                                                             *)
(***************************************************************************)
UnitsOf(k) == {f \in BagToSet(futures) : f.kind = k}
OneUnitOf(k) ==
    /\ Cardinality(UnitsOf(k)) = 1
    /\ \A f \in UnitsOf(k) : CopiesIn(f, futures) = 1
Completed(k) == pc = "match" /\ cur.kind = k
PanicYielded == pc = "match" /\ cur.result = "Err(panic)"
Within1Percent(x, ref) == (x - ref) * 100 <= ref /\ (ref - x) * 100 <= ref

\* C1 (safety part): a step in which a panic of one monitor is yielded or
\* reacted to never unwinds run() and leaves the other monitor's in-flight
\* unit of work exactly as it was.
PanicLeavesOtherAlone ==
    /\ pc' # "unwound"
    /\ \A k \in Monitors :
           \/ PanicYielded /\ cur.kind = k
           \/ PanicYielded' /\ cur'.kind = k
           => UnitsOf(Other(k))' = UnitsOf(Other(k))

\* every collect() of k so far has panicked / has returned Ok(())
OnlyPanics(k) == lastCall[k].result \in {None, "panic"}
OnlyOk(k) == lastCall[k].result \in {None, "ok"}

\* C1: if one monitor's collect() panics on every call while the other's
\* always returns Ok(()), every panic is contained (the other monitor's
\* in-flight unit is never cancelled or failed by it, run() is not unwound)
\* and the other monitor's collect() completes infinitely often.
C1_PanicContained ==
    /\ [][PanicLeavesOtherAlone]_vars
    /\ ([](OnlyPanics("Discord") /\ OnlyOk("Telegram"))
            => []<>Completed("Telegram"))
    /\ ([](OnlyPanics("Telegram") /\ OnlyOk("Discord"))
            => []<>Completed("Discord"))

C1_Witness ==
    /\ Completed("Telegram")
    /\ cur.result = "Ok(Ok)"
    /\ lastCall["Discord"].result = "panic"
    /\ streak["Discord"] >= 2
    /\ \E f \in UnitsOf("Discord") : f.phase = "sleep"

\* C2: whenever a monitor's collect() has returned Ok(()), the unit of work
\* the supervisor resubmits for it carries retry-attempt count 0, whatever
\* the count was before the call.
C2_SuccessResetsAttempt ==
    \A k \in Monitors :
        /\ pc = "wait" => UnitsOf(k) # {}
        /\ lastCall[k].result = "ok" => \A f \in UnitsOf(k) : f.attempt = 0

C2_Witness ==
    \E k \in Monitors :
        /\ pc = "wait"
        /\ lastCall[k].result = "ok"
        /\ lastCall[k].attempt > 0
        /\ \E f \in UnitsOf(k) : f.attempt = 0

\* C3: after k consecutive failing collect() calls of one monitor (Err or
\* contained panic), counted from attempt count 0, the unit resubmitted for
\* that monitor carries attempt count k and exactly k backoff sleeps have
\* been started for that monitor; the other monitor's count and sleeps
\* follow its own failures only.
C3_FailuresCounted ==
    \A k \in Monitors :
        /\ pc = "wait" => UnitsOf(k) # {}
        /\ \A f \in UnitsOf(k) :
               /\ f.attempt = streak[k]
               /\ Len(delays[k]) = streak[k]

C3_Witness ==
    \E k \in Monitors :
        /\ pc = "wait"
        /\ streak[k] >= 3
        /\ Len(delays[k]) = streak[k]
        /\ \E f \in UnitsOf(k) : f.attempt = streak[k] /\ f.phase = "sleep"
        /\ streak[Other(k)] = 0
        /\ delays[Other(k)] = << >>

\* C4: the delay before the retry that follows the i-th consecutive failure
\* of a monitor is reconnect_delay(i-1), about 1 s, 2.7 s and 7.4 s for the
\* first three, and after the success that follows them the attempt count
\* is 0.
C4_DelaysInOrder ==
    \A k \in Monitors :
        /\ \A i \in 1 .. Len(delays[k]) :
               delays[k][i] = reconnect_delay(U32(i - 1))
        /\ Len(delays[k]) >= 3 =>
               /\ delays[k][1] = 1000
               /\ Within1Percent(delays[k][2], 2718)
               /\ Within1Percent(delays[k][3], 7389)
        /\ \A f \in UnitsOf(k) :
               /\ f.phase = "sleep" =>
                      /\ delays[k] # << >>
                      /\ f.delay = delays[k][Len(delays[k])]
               /\ lastCall[k].result = "ok" => f.attempt = 0 /\ f.phase # "sleep"

C4_Witness ==
    /\ pc = "match"
    /\ cur.result = "Ok(Ok)"
    /\ cur.attempt = 3
    /\ Len(delays[cur.kind]) = 3
    /\ streak[cur.kind] = 0

\* e^n in milliseconds, rounded, for n in 0..6
ExpMillis(n) == <<1000, 2718, 7389, 20086, 54598, 148413, 403429>>[n + 1]
AtLeast7(u) == u.hi > 0 \/ u.lo >= 7
U32Leq(a, b) == a.hi < b.hi \/ (a.hi = b.hi /\ a.lo <= b.lo)

\* C5: for every u32 attempt count n, reconnect_delay(n) = min(e^n, 600) s:
\* below 600 s for n <= 6, exactly 600 s for every n >= 7, never above 600 s
\* and non-decreasing in n.
C5_DelayIsCappedExponential ==
    ret # << >> =>
        /\ ret[1] <= CAP_SECS * Millis
        /\ AtLeast7(arg[1]) => ret[1] = CAP_SECS * Millis
        /\ ~AtLeast7(arg[1]) =>
               /\ ret[1] < CAP_SECS * Millis
               /\ Within1Percent(ret[1], ExpMillis(arg[1].lo))
        /\ \A a \in DelayInputs :
               U32Leq(a, arg[1]) => reconnect_delay(a) <= ret[1]

\* C6: whenever the loop waits for a completion the pool holds exactly one
\* unit for the Discord monitor and exactly one for the Telegram monitor; in
\* the loop body the yielded unit is gone and the other monitor's is alone.
C6_OneUnitPerMonitor ==
    /\ pc = "wait" =>
           /\ BagCardinality(futures) = 2
           /\ \A k \in Monitors : OneUnitOf(k)
    /\ pc = "match" =>
           /\ BagCardinality(futures) = 1
           /\ OneUnitOf(Other(cur.kind))

C6_Witness ==
    /\ pc = "wait"
    /\ lastCall["Discord"].result = "err"
    /\ lastCall["Telegram"].result = "panic"
    /\ OneUnitOf("Discord")
    /\ OneUnitOf("Telegram")

\* C7: run() never leaves its loop: futures.next() never yields None (the
\* pool is never empty where the loop waits) and run() neither returns nor
\* unwinds, whatever the monitors' collect() calls do.
C7_RunNeverReturns ==
    /\ pc \in {"wait", "match"}
    /\ pc = "wait" => futures # EmptyBag

C7_Witness ==
    /\ pc = "wait"
    /\ streak["Discord"] = MaxAttempt
    /\ streak["Telegram"] = MaxAttempt
    /\ futures # EmptyBag

\* C8: a Connected Telegram collect() whose stack sample is over the
\* threshold sets the state to Disconnected and drops the client without
\* any network operation and returns Ok(()); the unit resubmitted for it
\* starts without a backoff sleep and carries attempt count 0.
C8_VetoIsFree ==
    LET c == lastCall["Telegram"]
    IN  (c.pre = "Connected" /\ c.stack > STACK_LIMIT) =>
            /\ c.veto
            /\ c.result = "ok"
            /\ ~c.io
            /\ Completed("Telegram") =>
                   /\ cur.result = "Ok(Ok)"
                   /\ cur.m.state = "Disconnected" /\ cur.m.client = None
            /\ \A f \in UnitsOf("Telegram") :
                   /\ f.m.state = "Disconnected" /\ f.m.client = None
                   /\ f.attempt = 0
                   /\ f.phase # "sleep"
                   /\ f.phase = "collect" => f.delay = 0

C8_Witness ==
    /\ pc = "wait"
    /\ lastCall["Telegram"].pre = "Connected"
    /\ lastCall["Telegram"].stack > STACK_LIMIT
    /\ lastCall["Telegram"].attempt > 0
    /\ \E f \in UnitsOf("Telegram") : f.phase = "collect" /\ f.attempt = 0

\* 75% of the 8 MiB budget
Threshold75 == (STACK_BUDGET * 75) \div 100

\* C9 as stated: the guard preempts for every sample at or above 6 MiB, the
\* threshold itself included, and for no sample below it.
C9_PreemptsAtOrAbove ==
    ret # << >> =>
        /\ ret[1].utils <=> arg[1] >= Threshold75
        /\ ret[1].dms <=> arg[1] >= Threshold75

\* C9 amended: the guard preempts exactly for the samples strictly above
\* 6 MiB (75% of the 8 MiB budget); a sample equal to the threshold, like
\* every sample below it, does not preempt.
C9_PreemptsStrictlyAbove ==
    ret # << >> =>
        /\ ret[1].utils <=> arg[1] > Threshold75
        /\ ret[1].dms <=> arg[1] > Threshold75

C9_Witness ==
    /\ ret # << >>
    /\ arg[1] = Threshold75
    /\ ~ret[1].utils
    /\ ~ret[1].dms

\* C10: when a Connected monitor's handling of a received event reports an
\* error, collect() leaves the state Connected and returns Ok(()); the unit
\* resubmitted for it starts at once, with attempt count 0, and finds the
\* monitor still Connected (no reconnect, no backoff).
C10_BusinessErrorIgnored ==
    \A k \in Monitors :
        lastCall[k].biz =>
            /\ lastCall[k].pre = "Connected"
            /\ lastCall[k].result = "ok"
            /\ Completed(k) =>
                   cur.result = "Ok(Ok)" /\ cur.m.state = "Connected"
            /\ \A f \in UnitsOf(k) :
                   /\ f.m.state = "Connected"
                   /\ f.phase = "collect"
                   /\ f.delay = 0
                   /\ f.attempt = 0

C10_Witness ==
    /\ pc = "wait"
    /\ lastCall["Discord"].biz
    /\ lastCall["Telegram"].biz
    /\ \A k \in Monitors : \E f \in UnitsOf(k) : f.m.state = "Connected"

\* the sleep collect() takes itself after a failed connect: 5 min for
\* Discord, 10 min for Telegram
RetryWait(k) == IF k = "Discord" THEN 5 * 60 * Millis ELSE 10 * 60 * Millis

MonitorsOf(k) ==
    {f.m : f \in UnitsOf(k)} \cup (IF Completed(k) THEN {cur.m} ELSE {})

\* C13: at construction and at every return from collect(), each monitor is
\* in exactly one of Disconnected and Connected (Discord's session halves are
\* the payload of State::Connected); the Telegram monitor's client is Some
\* exactly when its state is Connected.
C13_HandleIffConnected ==
    \A k \in Monitors : \A m \in MonitorsOf(k) :
        /\ m.state \in {"Disconnected", "Connected"}
        /\ k = "Telegram" => (m.client = "Some" <=> m.state = "Connected")
        /\ k = "Telegram" => m.client \in {None, "Some"}

C13_Witness ==
    /\ Completed("Telegram")
    /\ lastCall["Telegram"].pre = "Connected"
    /\ lastCall["Telegram"].io
    /\ cur.m.state = "Disconnected"
    /\ cur.m.client = None
    /\ \E f \in UnitsOf("Discord") : f.m.state = "Connected"

\* C14 as stated: every call of collect() that returns has performed exactly
\* one connect attempt and no event (entered Disconnected), or no connect
\* attempt and exactly one multiplexed event (entered Connected).
C14_ExactlyOneStep ==
    \A k \in Monitors :
        LET c == lastCall[k]
        IN  c.result \in {"ok", "err"} =>
                /\ c.pre = "Disconnected" => c.connects = 1 /\ c.events = 0
                /\ c.pre = "Connected" => c.connects = 0 /\ c.events = 1

\* C14 amended: every call of collect() that returns has performed exactly
\* one connect attempt and no event (entered Disconnected), or no connect
\* attempt and exactly one multiplexed event (entered Connected), except that
\* a Connected Telegram call vetoed by the stack guard performs neither; no
\* call, a panicking one included, makes two connect attempts, takes two
\* events, or does both a connect attempt and an event.
C14_OneStepUnlessVetoed ==
    \A k \in Monitors :
        LET c == lastCall[k]
        IN  /\ c.connects + c.events <= 1
            /\ c.veto =>
                   /\ k = "Telegram"
                   /\ c.pre = "Connected"
                   /\ c.connects = 0 /\ c.events = 0
            /\ (c.result \in {"ok", "err"} /\ ~c.veto) =>
                   /\ c.pre = "Disconnected" => c.connects = 1 /\ c.events = 0
                   /\ c.pre = "Connected" => c.connects = 0 /\ c.events = 1

C14_Witness ==
    /\ Completed("Telegram")
    /\ lastCall["Telegram"].veto
    /\ lastCall["Telegram"].events = 0
    /\ lastCall["Discord"].events = 1

\* Telegram's connect() is waiting for the operator's line
WaitingForOperator == \E f \in UnitsOf("Telegram") : Blocking(f)

\* C15 as stated: while the Telegram monitor's connect step waits for
\* operator input, the Discord monitor's in-flight unit can still be polled
\* (its collect() can complete, its timers can fire).
C15_DiscordProgressesDuringPrompt ==
    WaitingForOperator =>
        ENABLED (\E g \in BagToSet(futures) : g.kind = "Discord" /\ Poll(g))

\* C16: while one monitor's unit is inside the supervisor's backoff sleep,
\* the other monitor's in-flight unit can be polled (unless the loop body is
\* running), and a completed unit of the other monitor can be reacted to and
\* resubmitted; the sleeping unit holds nothing the other one needs.
C16_BackoffDoesNotBlock ==
    \A k \in Monitors :
        (\E f \in UnitsOf(k) : f.phase = "sleep") =>
            /\ pc \in {"wait", "match"}
            /\ pc = "wait" =>
                   /\ UnitsOf(Other(k)) # {}
                   /\ ENABLED (\E g \in BagToSet(futures) :
                                  g.kind = Other(k) /\ Poll(g))
            /\ pc = "match" => cur.kind = Other(k) /\ ENABLED React

C16_Witness ==
    /\ pc = "match"
    /\ cur.kind = "Telegram"
    /\ cur.result = "Ok(Ok)"
    /\ \E f \in UnitsOf("Discord") : f.phase = "sleep" /\ f.attempt >= 2

\* the step polls a unit of monitor k, or is the loop body's reaction to a
\* completed unit of k
StepOf(k) ==
    \/ pc = "wait" /\ UnitsOf(k)' # UnitsOf(k)
    \/ pc = "match" /\ cur.kind = k

\* C17: a step of one monitor's unit of work (a poll, its completion with
\* success, error or panic) and the supervisor's reaction to it leave the
\* other monitor's unit as it was: its connection state, client, bookkeeping
\* (last message times, message counter) and attempt count do not change.
C17_OtherMonitorUntouched ==
    [][\A k \in Monitors :
          StepOf(k) =>
              /\ UnitsOf(Other(k))' = UnitsOf(Other(k))
              /\ \A f \in UnitsOf(Other(k)) :
                     CopiesIn(f, futures') = CopiesIn(f, futures)
              /\ ~Completed(Other(k))']_vars

C17_Witness ==
    /\ PanicYielded
    /\ cur.kind = "Discord"
    /\ cur.m.message_counter > 0
    /\ \E f \in UnitsOf("Telegram") :
           /\ f.m.state = "Connected"
           /\ f.m.client = "Some"
           /\ f.m.last_message_times = {Channel}

\* C18: when collect() panics at attempt count a, the loop body is handed the
\* monitor as the call left it, under its own kind and with count a, and the
\* unit it pushes owns that same monitor and carries count a + 1.
C18_PanicKeepsMonitor ==
    [][\A k \in Monitors :
          /\ (pc = "wait" /\ PanicYielded' /\ cur'.kind = k) =>
                 \E f \in UnitsOf(k) :
                     /\ UnitsOf(k)' = {}
                     /\ cur'.m = f.m
                     /\ cur'.attempt = f.attempt
          /\ (PanicYielded /\ cur.kind = k) =>
                 /\ UnitsOf(k) = {}
                 /\ \E f \in UnitsOf(k)' :
                        /\ UnitsOf(k)' = {f}
                        /\ CopiesIn(f, futures') = 1
                        /\ f.m = cur.m
                        /\ f.attempt = cur.attempt + 1]_vars

C18_Witness ==
    /\ pc = "wait"
    /\ lastCall["Discord"].result = "panic"
    /\ lastCall["Discord"].pre = "Connected"
    /\ lastCall["Discord"].attempt >= 1
    /\ \E f \in UnitsOf("Discord") :
           /\ f.m.state = "Connected"
           /\ f.m.message_counter > 0
           /\ f.attempt = lastCall["Discord"].attempt + 1

\* a collect() of monitor k is under way
Started(k) == \E f \in UnitsOf(k) : f.phase = "collect"

\* C19: with timers firing, the operator's input arriving and the loop body
\* running to its end, every completed unit of work of a monitor (success,
\* Err or contained panic) is followed by the start of another collect() of
\* the same monitor.
C19_AlwaysRedriven ==
    \A k \in Monitors : Completed(k) ~> Started(k)

C19_Witness ==
    \E k \in Monitors :
        /\ pc = "wait"
        /\ lastCall[k].result = "panic"
        /\ \E f \in UnitsOf(k) :
               /\ f.phase = "collect"
               /\ f.attempt = lastCall[k].attempt + 1
               /\ f.attempt = MaxAttempt

\* C12 as stated, granting that files can be deleted and created: a connect
\* attempt that finds the session file corrupted deletes it and goes on with
\* a fresh database, so a corrupted file makes no attempt fail.
C12_CorruptedSessionReplaced ==
    \A i \in 1 .. Len(ret) :
        (ret[i].before \in CorruptedFiles /\ ret[i].dir_writable) =>
            /\ ret[i].removed
            /\ ret[i].result = "session"
            /\ ret[i].after = "database"

\* the line is blanks, then "- [ ] ", then text that is not all blanks
OptionStart(line) ==
    {i \in 1 .. Len(line) :
        /\ \A j \in 1 .. (i - 1) : is_whitespace(line[j])
        /\ Len(line) >= i + 6
        /\ SubSeq(line, i, i + 5) = OPTION_PREFIX
        /\ \E j \in (i + 6) .. Len(line) : ~is_whitespace(line[j])}
IsOptionLine(line) == OptionStart(line) # {}
OptionText(line) ==
    LET i == CHOOSE i \in OptionStart(line) : TRUE
        last == CHOOSE j \in 1 .. Len(line) :
                    /\ ~is_whitespace(line[j])
                    /\ \A k \in (j + 1) .. Len(line) : is_whitespace(line[k])
    IN  SubSeq(line, i + 6, last)
IsTextLine(line) == ~IsOptionLine(line)
OptionLines(lines) == SelectSeq(lines, IsOptionLine)
OptionTexts(lines) ==
    [i \in 1 .. Len(OptionLines(lines)) |-> OptionText(OptionLines(lines)[i])]

\* C20: parse_poll_text fails when the text has no option line and when it
\* has more than 4; with 1 to 4 option lines it succeeds, returns their
\* option texts in order of appearance, and builds the tweet text from the
\* other lines only.
C20_PollTextParsed ==
    ret # << >> =>
        LET lines == arg[1]
            n == Len(OptionLines(lines))
            r == ret[1]
        IN  /\ n = 0 => ~r.ok /\ r.err = "No poll options found"
            /\ n > 4 => ~r.ok /\ r.err = "maximum 4 options"
            /\ n \in 1 .. 4 =>
                   /\ r.ok
                   /\ r.poll_options = OptionTexts(lines)
                   /\ r.tweet_text =
                          substitute(
                              trim(join(SelectSeq(lines, IsTextLine),
                                        <<"\n">>)),
                              PollVariables)

C20_Witness ==
    /\ ret # << >>
    /\ Len(arg[1]) = 5
    /\ ret[1].ok
    /\ ret[1].poll_options = <<<<"a">>, <<"b">>, <<"b">>, <<"a">>>>
    /\ ret[1].tweet_text = <<"1">>

Failed(k) == Completed(k) /\ cur.result \in {"Ok(Err)", "Err(panic)"}

\* C26: for every attempt count a, the supervisor reacts to a contained panic
\* and to an Err of the same monitor in the same way: it pushes one unit for
\* that monitor which first sleeps reconnect_delay(a) and then calls
\* collect(), and which carries count a + 1.
C26_PanicReactedLikeErr ==
    [][\A k \in Monitors :
          Failed(k) =>
              /\ futures' = futures (+) SetToBag({
                     [kind |-> k, m |-> cur.m, phase |-> "sleep",
                      delay |-> reconnect_delay(U32(cur.attempt)),
                      attempt |-> cur.attempt + 1]})
              /\ pc' = "wait"]_vars

C26_Witness ==
    /\ pc = "wait"
    /\ lastCall["Discord"].result = "err"
    /\ lastCall["Telegram"].result = "panic"
    /\ lastCall["Discord"].attempt = 1
    /\ lastCall["Telegram"].attempt = 1
    /\ \E d \in UnitsOf("Discord"), t \in UnitsOf("Telegram") :
           /\ d.phase = "sleep" /\ t.phase = "sleep"
           /\ d.delay = t.delay
           /\ d.attempt = 2 /\ t.attempt = 2

\* C27: the supervisor puts a sleep before a monitor's next collect() exactly
\* when the previous collect() failed. After Ok(()) the resubmitted unit
\* calls collect() at once; after an Err or a panic it sleeps
\* reconnect_delay(attempt) first, and while it sleeps no collect() of that
\* monitor completes: the only step the unit takes is the end of the sleep.
C27_SleepIffFailed ==
    [][\A k \in Monitors :
          /\ Completed(k) =>
                 \E f \in UnitsOf(k)' :
                     /\ UnitsOf(k)' = {f}
                     /\ cur.result = "Ok(Ok)" =>
                            f.phase = "collect" /\ f.delay = 0
                     /\ cur.result # "Ok(Ok)" =>
                            /\ f.phase = "sleep"
                            /\ f.delay = reconnect_delay(U32(cur.attempt))
          /\ \A f \in UnitsOf(k)' :
                 f.phase = "sleep" /\ f \notin UnitsOf(k) => Failed(k)
          /\ \A f \in UnitsOf(k) :
                 f.phase = "sleep" =>
                     /\ lastCall'[k] = lastCall[k]
                     /\ UnitsOf(k)' \subseteq
                            {f, [f EXCEPT !.phase = "collect"]}]_vars

C27_Witness ==
    /\ pc = "wait"
    /\ lastCall["Discord"].result = "ok"
    /\ lastCall["Discord"].pre = "Connected"
    /\ lastCall["Telegram"].result = "panic"
    /\ streak["Telegram"] = 2
    /\ \E d \in UnitsOf("Discord") : d.phase = "collect" /\ d.delay = 0
    /\ \E t \in UnitsOf("Telegram") :
           /\ t.phase = "collect"
           /\ t.delay = reconnect_delay(U32(1))
           /\ t.attempt = 2

\* C30: a contained panic leaves the monitor's connection state as it was
\* when collect() was called: the monitor the loop body gets back and the
\* unit it resubmits are in that state (a Telegram monitor with its client
\* if and only if it was Connected), and the monitor's next collect() starts
\* from that state, so after a panic in Connected it makes no connect
\* attempt.
C30_PanicKeepsConnection ==
    [][\A k \in Monitors :
          lastCall'[k].result = "panic" =>
              /\ \A m \in MonitorsOf(k)' :
                     /\ m.state = lastCall'[k].pre
                     /\ k = "Telegram" =>
                            (m.client = "Some" <=> m.state = "Connected")
              /\ lastCall[k].result = "panic" /\ lastCall'[k] # lastCall[k]
                     => /\ lastCall'[k].pre = lastCall[k].pre
                        /\ lastCall[k].pre = "Connected" =>
                               lastCall'[k].connects = 0]_vars

C30_Witness ==
    /\ pc = "wait"
    /\ \A k \in Monitors :
           /\ lastCall[k].result = "panic"
           /\ lastCall[k].pre = "Connected"
           /\ lastCall[k].attempt = 1
           /\ \E f \in UnitsOf(k) : f.m.state = "Connected" /\ f.phase = "collect"

\* C24 as stated: every monitor's collect() made while Connected consults the
\* resource guard first: on a thread whose stack usage is over the
\* threshold, the Discord call and the Telegram call alike are vetoed and end
\* before any network operation.
C24_EveryMonitorConsultsGuard ==
    (ret # << >> /\ arg[1] > STACK_LIMIT) =>
        \A r \in {ret[1].discord, ret[1].telegram} :
            r.veto /\ ~r.io /\ r.ops = << >>

\* C24 amended: the Telegram monitor's collect() made while Connected samples
\* the stack before it awaits updates.next(): over the threshold the call is
\* vetoed and ends Disconnected with Ok(()) and without any network
\* operation, otherwise its first await is updates.next(). The Discord
\* monitor consults no resource guard: whatever the stack usage, its
\* collect() goes straight to the select of keep-alive tick and next message.
C24_TelegramConsultsGuardFirst ==
    ret # << >> =>
        LET d == ret[1].discord
            t == ret[1].telegram
        IN  /\ arg[1] > STACK_LIMIT =>
                   /\ t.veto /\ ~t.io /\ t.ops = << >>
                   /\ t.outcome = "ok"
                   /\ t.m.state = "Disconnected" /\ t.m.client = None
            /\ arg[1] <= STACK_LIMIT =>
                   ~t.veto /\ t.io /\ t.ops[1] = "updates.next"
            /\ ~d.veto /\ d.io /\ d.ops[1] = "select"

C24_Witness ==
    /\ ret # << >>
    /\ arg[1] = STACK_LIMIT + 1
    /\ ret[1].telegram.veto
    /\ ret[1].telegram.ops = << >>
    /\ ~ret[1].discord.veto
    /\ ret[1].discord.ops = <<"select", "handle_message">>

\* C25 as stated: in the channel-watch daemon, after a resource-guard trigger
\* inside the event loop the daemon reconnects without a backoff sleep and
\* with the attempt counter as it was.
C25_GuardTriggerIsFree ==
    watch.cause = "stack" =>
        /\ watch.pc # "sleep"
        /\ watch.attempt = watch.failed_at

\* C23 as stated, for the Telegram DM monitor: once the runner task has
\* ended while the monitor is Connected, one of the next two collect() calls
\* to complete (the one under way or the one after it) leaves the monitor
\* Disconnected and returns Err.
C23_DriverExitObserved ==
    (conn.kind = "Telegram" /\ conn.runner = "exited"
        /\ conn.last.pre = "Connected") =>
        /\ conn.exit_calls >= 2 => conn.m.state = "Disconnected"
        /\ (conn.exit_calls >= 1 /\ conn.m.state = "Disconnected"
                /\ conn.last.took # "veto") => conn.last.outcome = "err"

\* the ids of the events that the collect() calls of this connection took
\* off the stream, in the order of the calls
RECURSIVE Taken(_)
Taken(log) ==
    IF log = << >> THEN << >>
    ELSE (IF Head(log).kind = "message" THEN <<Head(log).id>> ELSE << >>)
            \o Taken(Tail(log))

\* C28: on one connection the events are taken for handling in the order in
\* which they arrived, whatever keep-alive ticks are handled in between: the
\* i-th event taken is the i-th that arrived, and the events still buffered
\* are the later arrivals in their order.
C28_HandledInArrivalOrder ==
    LET seen == Taken(conn.log) \o conn.inbox
    IN  /\ Len(seen) = conn.arrived
        /\ \A i \in 1 .. Len(seen) : seen[i] = i

C28_Witness ==
    /\ conn.kind = "Discord"
    /\ Taken(conn.log) = <<1, 2>>
    /\ \E i, j, k \in 1 .. Len(conn.log) :
           /\ i < j /\ j < k
           /\ conn.log[i].id = 1
           /\ conn.log[j].kind = "tick"
           /\ conn.log[k].id = 2

\* C29 as stated: on a Connected Discord monitor neither source starves the
\* other: however many collect() calls the connection is followed for, a due
\* tick, and likewise a buffered message, is taken before that many calls
\* have passed it by.
C29_NeitherStarves ==
    conn.kind = "Discord" =>
        /\ conn.tick_wait < MaxCalls
        /\ conn.msg_wait < MaxCalls

\* C29 amended: the select polls the keep-alive timer first. A collect()
\* that starts with a tick due handles that tick, messages buffered or not,
\* so a tick never waits; a buffered message is taken by the first collect()
\* that starts with no tick due, and every call that passes it by is the
\* handling of a tick.
C29_TickPolledFirst ==
    (conn.kind = "Discord" /\ conn.last.pre = "Connected") =>
        /\ conn.last.due => conn.last.took = "tick"
        /\ (~conn.last.due /\ conn.last.avail) => conn.last.took = "message"
        /\ conn.tick_wait = 0
        /\ conn.msg_wait > 0 => conn.last.took = "tick"
        /\ conn.msg_wait <= Len(conn.log)
        /\ \A i \in 1 .. Len(conn.log) :
               i > Len(conn.log) - conn.msg_wait => conn.log[i].kind = "tick"

C29_Witness ==
    /\ conn.kind = "Discord"
    /\ conn.m.state = "Connected"
    /\ conn.msg_wait = MaxCalls
    /\ conn.inbox # << >>
    /\ conn.last.took = "tick"

\* the last completed collect() of monitor k was made while Connected and
\* ended the connection itself: a failed heartbeat send, a failed receive or
\* a stack veto
DetectedDisconnect(k) ==
    /\ lastCall[k].pre = "Connected"
    /\ lastCall[k].fault # "none" \/ lastCall[k].veto

\* C31: after a collect() that detected a disconnection while Connected, the
\* monitor's unit is never put behind a supervisor backoff sleep and carries
\* attempt count 0, and the next collect() of that monitor to complete is a
\* connect attempt made from Disconnected at count 0.
C31_DisconnectThenConnectAtZero ==
    [][\A k \in Monitors :
          DetectedDisconnect(k) =>
              /\ \A f \in UnitsOf(k)' :
                     /\ f.attempt = 0
                     /\ f.phase # "sleep"
                     /\ f.m.state = "Disconnected"
              /\ lastCall'[k] # lastCall[k] =>
                     /\ UnitsOf(k) # {}
                     /\ lastCall'[k].pre = "Disconnected"
                     /\ lastCall'[k].attempt = 0
                     /\ lastCall'[k].connects = 1
                     /\ lastCall'[k].events = 0]_vars

C31_Witness ==
    /\ pc = "wait"
    /\ lastCall["Discord"].fault = "recv"
    /\ lastCall["Discord"].attempt > 0
    /\ lastCall["Telegram"].veto
    /\ lastCall["Telegram"].attempt > 0
    /\ \A k \in Monitors :
           \E f \in UnitsOf(k) :
               f.phase = "collect" /\ f.attempt = 0 /\ f.m.state = "Disconnected"

\* C32: in the channel-watch daemon run_telegram_monitor never comes back
\* with Ok(()), so the attempt counter never decreases: it stays as it is
\* except that every reconnect (the end of the backoff sleep) adds one; the
\* backoff delay is below the 600 s cap for counts up to 6 and is the cap
\* for every count from 7 on, however many updates the sessions in between
\* handled.
C32_CounterOnlyGrows ==
    [][/\ watch'.attempt =
              IF watch.pc = "sleep" THEN watch.attempt + 1 ELSE watch.attempt
       /\ watch'.pc = "match" => watch'.result \in {"Ok(Err)", "Err(panic)"}
       /\ watch.pc = "match" =>
              /\ watch'.pc = "sleep"
              /\ watch.attempt >= 7 => watch'.delay = CAP_SECS * Millis
              /\ watch.attempt < 7 => watch'.delay < CAP_SECS * Millis]_vars

C32_Witness ==
    /\ watch.pc = "sleep"
    /\ watch.cause = "runner"
    /\ watch.failed_at = 8
    /\ watch.attempt = 8
    /\ watch.delay = CAP_SECS * Millis

\* C33: in the channel-watch event loop an error of updates.next() leaves
\* the session as it is: the loop goes on with the same runner, the message
\* counter and the attempt counter unchanged, and nothing is handed to
\* main's match; the event loop is left only by a stack veto, a runner exit
\* or a panic.
C33_UpdateErrorKeepsSession ==
    [][/\ (watch.last_ev # "update_err" /\ watch'.last_ev = "update_err") =>
              /\ watch.pc = "run" /\ watch.stage = "loop"
              /\ watch' = [watch EXCEPT !.last_ev = "update_err"]
       /\ (watch.stage = "loop" /\ watch'.pc = "match") =>
              watch'.cause \in {"stack", "runner", "panic"}]_vars

C33_Witness ==
    /\ watch.pc = "run"
    /\ watch.stage = "loop"
    /\ watch.last_ev = "update_err"
    /\ watch.runner = "running"
    /\ watch.message_counter > 0
    /\ watch.attempt > 0

\* the entry that the collect() just completed added to the log
Newest(c) == c.log[Len(c.log)]

Complete3(data) == data.author /\ data.content /\ data.channel_id
\* the call tried to send a notification and the send failed
SendFailed(a, r) == r.sends # << >> /\ ~a.env.send_ok
\* the call left the current time recorded for the message's channel
Recorded(r) == get(r.times, Channel) = {Now}
\* a monitored-user notification is due: nothing recorded for the channel,
\* or the recorded time is at least 15 minutes back
Due(a) == \A t \in get(a.times, Channel) : Now - t >= 15 * 60 * Millis

\* C35 as stated: a monitored-user notification is sent only for a DM
\* without /ping from a monitored user, and only when nothing is recorded
\* for the channel or the last recorded message is at least 15 minutes old;
\* every message with author, content and channel id records the current
\* time for its channel unless a notification send failed in that call.
C35_EveryMessageRecorded ==
    ret # << >> =>
        LET a == arg[1]
            r == ret[1]
        IN  /\ r.sends = <<"monitored">> =>
                   /\ a.data.is_dm /\ ~a.data.has_ping
                   /\ a.data.is_monitored_user
                   /\ Due(a)
            /\ (Complete3(a.data) /\ ~SendFailed(a, r)) => Recorded(r)

\* C35 amended: the notification part as stated; a message with author,
\* content and channel id that contains /ping and is not the user's own
\* never records a time (the map is left as it was); every other such
\* message, the user's own included, records the current time for its
\* channel unless the monitored-user notification send failed in that call,
\* in which case the map is left as it was; entries of other channels and
\* messages lacking one of the three fields change nothing.
C35_RecordedUnlessPing ==
    ret # << >> =>
        LET a == arg[1]
            r == ret[1]
            ping == a.data.has_ping /\ ~a.data.is_my_message
        IN  /\ r.sends = <<"monitored">> =>
                   /\ a.data.is_dm /\ ~a.data.has_ping
                   /\ a.data.is_monitored_user
                   /\ Due(a)
            /\ (Complete3(a.data) /\ ~a.data.has_ping /\ a.data.is_dm
                    /\ a.data.is_monitored_user /\ Due(a)) =>
                   r.sends = <<"monitored">>
            /\ (Complete3(a.data) /\ ping) => r.times = a.times
            /\ (Complete3(a.data) /\ ~ping) =>
                   IF SendFailed(a, r)
                   THEN r.times = a.times /\ ~r.ok
                   ELSE Recorded(r) /\ r.ok
            /\ ~Complete3(a.data) =>
                   r.times = a.times /\ r.ok /\ r.sends = << >>
            /\ get(r.times, OtherChannel) = get(a.times, OtherChannel)

C35_Witness ==
    /\ ret # << >>
    /\ Complete3(arg[1].data)
    /\ arg[1].data.has_ping /\ ~arg[1].data.is_my_message
    /\ arg[1].data.is_dm /\ arg[1].data.is_monitored_user
    /\ arg[1].env.send_ok
    /\ get(arg[1].times, Channel) = {Now - 15 * 60 * Millis}
    /\ ret[1].ok
    /\ ret[1].sends = <<"ping">>
    /\ ret[1].times = arg[1].times

\* C36: in each cycle post_poll is attempted at most num_of_retries times,
\* never again after the cycle's first success; a cycle ends, succeeded or
\* with every attempt failed, in a sleep of one schedule interval, after
\* which the next cycle starts; once in the loop the scheduler never returns.
C36_RetriesThenSleep ==
    [][/\ sched'.posts <= sched.num_of_retries
       /\ sched'.posts > sched.posts =>
              /\ sched.pc = "post"
              /\ ~sched.success
              /\ sched'.posts = sched.posts + 1
       /\ (sched.pc = "post" /\ sched'.pc # "post") =>
              /\ sched'.pc = "sleep"
              /\ sched'.sleeping = sched.schedule_duration
              /\ sched'.cycle = sched.cycle
              /\ \/ sched'.success
                 \/ ~sched'.success /\ sched'.posts = sched.num_of_retries
       /\ sched.pc = "sleep" =>
              /\ sched'.cycle = sched.cycle + 1
              /\ sched'.posts = 0
              /\ ~sched'.success \/ sched.num_of_retries = 0
              /\ sched'.pc = IF sched.num_of_retries = 0
                             THEN "sleep" ELSE "post"
       /\ sched.cycle > 0 => sched'.pc \in {"post", "sleep"}]_vars

C36_Witness ==
    /\ sched.pc = "post"
    /\ sched.num_of_retries = MaxRetries
    /\ sched.cycle = 3
    /\ sched.history = <<[success |-> FALSE, posts |-> MaxRetries],
                         [success |-> TRUE, posts |-> 2]>>

\* the step is a call of the message processing for message i
Processes(i) == i \in mail.batch /\ i \notin mail'.batch

\* C37: a message whose id is recorded as processed is skipped: it is not
\* forwarded, marked as read or evaluated again, and the call returns Ok
\* unless the lookup of the id itself failed; an
\* id becomes recorded only in a call whose action (forward for a human
\* sender, mark as read for an ignored or automated one) succeeded; after a
\* call whose action failed the message is unrecorded and still unread, so
\* the next run fetches it and does not skip it.
C37_RecordedAfterAction ==
    [][\A i \in MessageIds :
           /\ (Processes(i) /\ i \in mail.processed_emails) =>
                  /\ mail'.last.action = "none"
                  /\ mail'.last.ok <=> mail'.last.skipped
                  /\ mail'.forwards = mail.forwards
                  /\ mail'.reads = mail.reads
                  /\ mail'.evals = mail.evals
                  /\ mail'.unread = mail.unread
                  /\ mail'.processed_emails = mail.processed_emails
           /\ (i \notin mail.processed_emails
                   /\ i \in mail'.processed_emails) =>
                  /\ Processes(i)
                  /\ mail'.last.action_ok
                  /\ \/ /\ mail'.last.action = "forward"
                        /\ mail.from[i] = "other"
                        /\ mail'.forwards[i] = mail.forwards[i] + 1
                        /\ mail'.evals[i] = mail.evals[i] + 1
                     \/ /\ mail'.last.action = "read"
                        /\ i \in mail.unread /\ i \notin mail'.unread
           /\ (Processes(i) /\ mail'.last.action # "none"
                   /\ ~mail'.last.action_ok) =>
                  /\ ~mail'.last.ok
                  /\ i \notin mail'.processed_emails
                  /\ i \in mail'.unread
           /\ (Processes(i) /\ i \notin mail.processed_emails) =>
                  ~mail'.last.skipped
           /\ (mail.batch = {} /\ mail'.batch # {}) =>
                  mail'.batch = mail.unread]_vars

C37_Witness ==
    /\ mail.runs = 2
    /\ mail.batch = {}
    /\ mail.from[1] = "other" /\ mail.from[2] = "other"
    /\ mail.forwards[1] = 1 /\ mail.evals[1] = 1 /\ mail.reads[1] = 0
    /\ mail.failed = {2}
    /\ mail.evals[2] = 2 /\ mail.reads[2] = 1 /\ mail.forwards[2] = 0
    /\ {1, 2} \subseteq mail.processed_emails
    /\ 1 \in mail.unread /\ 2 \notin mail.unread
    /\ mail.last = [id |-> 1, ok |-> TRUE, skipped |-> TRUE,
                    action |-> "none", action_ok |-> FALSE]

\* the highest version recorded in the migrations table, -1 for none
HighestRecorded(rows) == IF rows = << >> THEN -1 ELSE max_version(rows)

\* C38 as stated: migrate applies exactly the migrations whose index is
\* greater than the highest recorded version, in index order, and records
\* each version right after applying it; a migrate that follows a complete
\* successful one applies and records nothing.
C38_OnlyPendingApplied ==
    [][/\ db'.applied # db.applied =>
              /\ db'.applied = Append(db.applied, db.idx)
              /\ db.idx > HighestRecorded(db.rows)
       /\ db'.rows # db.rows =>
              /\ db'.rows = Append(db.rows, db.idx)
              /\ db'.applied = Append(db.applied, db.idx)
       /\ (db.pc = "loop" /\ db'.idx = db.idx + 1
               /\ db.idx > HighestRecorded(db.started_at)) =>
              db'.rows # db.rows
       /\ (db'.complete /\ HighestRecorded(db.started_at) = db.len - 1) =>
              db'.rows = db.started_at]_vars


====
